---- MODULE Spec2Model ----
(***************************************************************************)
(* Proposal generation with pause / resume / stop control.                 *)
(*                                                                         *)
(* The model covers backend/generation_control.py (GenerationController)   *)
(* and backend/advanced_generator.py (SectionNode, the two-pass section    *)
(* generation and generate_advanced_proposal).  Every controller method    *)
(* runs under the controller lock and is one atomic step; the worker that  *)
(* executes generate_advanced_proposal is a sequence of steps separated by *)
(* its controller calls and its calls to the retrieval and generation      *)
(* services.                                                               *)
(***************************************************************************)
EXTENDS Integers, Sequences, FiniteSets, TLC

\* Largest section_tree of a template handed to a run.
MaxNodes == 2

VARIABLES
    sessions,          \* GenerationController._sessions: session id -> record
    pc,                \* position of each worker in generate_advanced_proposal
    session_id,        \* the session_id argument of each run
    toc_template,      \* the toc_template argument: <<>> (None) or <<t>>
    toc_nodes,         \* the outline traversed by the run
    idx,               \* loop index of "for idx, node in enumerate(toc_nodes)"
    sections_payload,  \* the run's sections list
    evidence_log,      \* the run's evidence_log["sections"] list
    rfq_ids,           \* provenance ids retrieved for the node in flight
    draft_json,        \* <<>> or <<draft>>: normalized draft of the node in flight
    status_seen,       \* what the last locked check of wait_if_paused found
    exc,               \* <<>> or <<e>>: exception that left generate_advanced_proposal
    node_exc,          \* history: per traversed node, <<>> or <<e>> caught by the per-node except
    last_writer,       \* history: who last wrote a session's status
    stop_mark,         \* history: nodes started when stop() first succeeded on a run in progress
    lock,              \* GenerationController._lock: "free" or its holder
    poll_pc,           \* position of a caller of get_generation_status
    poll_ref,          \* session id whose dict get_status returned to that caller
    poll_obj,          \* <<>>, or <<d>>: that dict, once it is no longer in _sessions
    poll_seen,         \* the fields the caller has read from the dict so far
    poll_held,         \* history: the values the dict has held since get_status returned it
    outline_paths,      \* outline_paths of each node for which path_str has returned
    prompt,             \* the messages of the last draft or refine call that was built
    response,           \* the raw response a call received last and what the call made of it
    ret                 \* the controller method the caller called last and what it returned

vars == <<sessions, pc, session_id, toc_template, toc_nodes, idx, sections_payload,
          evidence_log, rfq_ids, draft_json, status_seen, exc, node_exc,
          last_writer, stop_mark, lock, poll_pc, poll_ref, poll_obj, poll_seen,
          poll_held, outline_paths, prompt, response, ret>>

poll_vars == <<poll_pc, poll_ref, poll_obj, poll_seen, poll_held>>

worker_vars == <<pc, session_id, toc_template, toc_nodes, idx, sections_payload,
                 evidence_log, rfq_ids, draft_json, status_seen, exc, node_exc>>

(***************************************************************************)
(* Values                                                                  *)
(***************************************************************************)
\* GenerationStatus
RUNNING == "running"
PAUSED == "paused"
STOPPED == "stopped"
COMPLETED == "completed"
ERROR == "error"
GenerationStatus == {RUNNING, PAUSED, STOPPED, COMPLETED, ERROR}

SessionIds == {"s1", "s2"}
Workers == {"w1", "w2"}
\* Python None, for the optional session_id
None == "None"

\* Optional[int] parent of a SectionNode
NoParent == [tag |-> "none"]
IntParent(n) == [tag |-> "int", v |-> n]
\* Other JSON values a template may hold as parent: a string (hashable, no
\* int) and a list (unhashable)
StrParent(t) == [tag |-> "str", s |-> t]
ListParent == [tag |-> "list"]

\* Text is modelled as a sequence of tokens; concatenation is \o.
Text(s) == [k |-> "text", s |-> s]
\* A JSON object occurring inside a model response.
Obj(o) == [k |-> "obj", o |-> o]
\* A JSON value that is not an object (a string, a number, a list of strings)
Val(v) == [k |-> "val", v |-> v]

\* dict.get(key, default)
Get(d, key, default) == IF key \in DOMAIN d THEN d[key] ELSE default

\* dict with d[key] = value
Put(d, key, value) ==
    [x \in DOMAIN d \cup {key} |-> IF x = key THEN value ELSE d[x]]

\* dict.setdefault(key, default), as the resulting dict
SetDefault(d, key, default) == IF key \in DOMAIN d THEN d ELSE Put(d, key, default)

Range(s) == {s[i] : i \in DOMAIN s}

\* JSON null (Python None) as the value of a list field: a reserved value that
\* no list drawn as an input equals
JsonNull == <<"\\null">>

(***************************************************************************)
(* GenerationController: each method is a function of the session map.     *)
(***************************************************************************)
\* started_at is the wall clock at creation; one token stands for it.
Now == "now"

create_session(s, id) ==
    Put(s, id, [status |-> RUNNING,
                current_section |-> "",
                total_sections |-> 0,
                completed_sections |-> 0,
                started_at |-> Now,
                message |-> ""])

\* Faulty variant of set_status: a missing record is created.
set_status_creating(s, id, status, message) ==
    IF id \in DOMAIN s
    THEN [s EXCEPT ![id].status = status, ![id].message = message]
    ELSE Put(s, id, [status |-> status,
                     current_section |-> "",
                     total_sections |-> 0,
                     completed_sections |-> 0,
                     started_at |-> Now,
                     message |-> message])

set_status(s, id, status, message) ==
    IF id \in DOMAIN s
    THEN [s EXCEPT ![id].status = status, ![id].message = message]
    ELSE s

\* Faulty variant of pause: every session of the map is paused.
pause_every(s, id) ==
    IF id \in DOMAIN s THEN [x \in DOMAIN s |-> [s[x] EXCEPT !.status = PAUSED]] ELSE s

pause(s, id) ==
    IF id \in DOMAIN s THEN [s EXCEPT ![id].status = PAUSED] ELSE s

\* Faulty variant of resume: any existing session is set to RUNNING.
resume_any(s, id) ==
    IF id \in DOMAIN s THEN [s EXCEPT ![id].status = RUNNING] ELSE s

resume(s, id) ==
    IF id \in DOMAIN s /\ s[id].status = PAUSED
    THEN [s EXCEPT ![id].status = RUNNING]
    ELSE s

stop(s, id) ==
    IF id \in DOMAIN s THEN [s EXCEPT ![id].status = STOPPED] ELSE s

\* What pause, resume and stop return
pause_result(s, id) == id \in DOMAIN s
resume_result(s, id) == id \in DOMAIN s /\ s[id].status = PAUSED
stop_result(s, id) == id \in DOMAIN s

\* get_status: None (<<>>) or the record
get_status(s, id) == IF id \in DOMAIN s THEN <<s[id]>> ELSE <<>>

\* A call of fn on id that returned value; tick tells one call from the next
Return(fn, id, value, tick) == [fn |-> fn, id |-> id, value |-> value, tick |-> tick]
NoReturn == Return("none", None, FALSE, 0)

update_progress(s, id, current_section, completed, total) ==
    IF id \in DOMAIN s
    THEN [s EXCEPT ![id].current_section = current_section,
                   ![id].completed_sections = completed,
                   ![id].total_sections = total]
    ELSE s

cleanup_session(s, id) == [x \in DOMAIN s \ {id} |-> s[x]]

\* The locked read of wait_if_paused: what it finds for the session.
Observe(s, id) == IF id \in DOMAIN s THEN s[id].status ELSE "missing"

\* Faulty variant of wait_if_paused: a paused session lets the worker through.
wait_if_paused_through(seen) ==
    IF seen \in {"missing", STOPPED} THEN "false" ELSE "true"

\* One pass of the loop of wait_if_paused on what the locked read found:
\* "false" / "true" are its return values, "sleep" is time.sleep and another pass.
wait_if_paused(seen) ==
    IF seen = "missing" THEN "false"
    ELSE IF seen = STOPPED THEN "false"
    ELSE IF seen = RUNNING THEN "true"
    ELSE "sleep"

(***************************************************************************)
(* Outline: SectionNode, path_str, toc_template_to_nodes, default outline. *)
(***************************************************************************)
SectionNode(title, level, order, parent) ==
    [title |-> title, level |-> level, order |-> order, parent |-> parent]

\* The while loop of path_str: chain grows from the node's own title upwards.
RECURSIVE PathWalk(_, _, _, _)
PathWalk(tree, p, visited, chain) ==
    IF p = NoParent \/ p \in visited THEN chain
    ELSE IF p.tag # "int" \/ p.v < 0 \/ p.v >= Len(tree) THEN chain
    ELSE PathWalk(tree, tree[p.v + 1].parent, visited \cup {p},
                  Append(chain, tree[p.v + 1].title))

\* "p not in visited" hashes p: it raises TypeError when the walk comes to a
\* parent that is a list
RECURSIVE PathRaises(_, _, _)
PathRaises(tree, p, visited) ==
    IF p = NoParent THEN FALSE
    ELSE IF p.tag = "list" THEN TRUE
    ELSE IF p \in visited THEN FALSE
    ELSE IF p.tag # "int" \/ p.v < 0 \/ p.v >= Len(tree) THEN FALSE
    ELSE PathRaises(tree, tree[p.v + 1].parent, visited \cup {p})

Reversed(s) == [i \in 1..Len(s) |-> s[Len(s) + 1 - i]]

\* " > ".join(titles)
RECURSIVE JoinPath(_)
JoinPath(titles) ==
    IF Len(titles) = 0 THEN ""
    ELSE IF Len(titles) = 1 THEN titles[1]
    ELSE titles[1] \o " > " \o JoinPath(Tail(titles))

\* Faulty variant of path_str: the chain is joined as collected, node first.
path_str_unreversed(node, tree) ==
    JoinPath(PathWalk(tree, node.parent, {}, <<node.title>>))

path_str(node, tree) ==
    JoinPath(Reversed(PathWalk(tree, node.parent, {}, <<node.title>>)))

\* Sort key of nodes.sort(key=lambda n: (n.order, n.level))
KeyLess(a, b) == a.order < b.order \/ (a.order = b.order /\ a.level < b.level)

\* Insert n after every element whose key is not greater (the sort is stable).
RECURSIVE InsertSorted(_, _)
InsertSorted(sorted, n) ==
    IF Len(sorted) = 0 THEN <<n>>
    ELSE IF KeyLess(n, sorted[Len(sorted)])
         THEN Append(InsertSorted(SubSeq(sorted, 1, Len(sorted) - 1), n),
                     sorted[Len(sorted)])
         ELSE Append(sorted, n)

RECURSIVE SortNodes(_)
SortNodes(nodes) ==
    IF Len(nodes) = 0 THEN <<>>
    ELSE InsertSorted(SortNodes(SubSeq(nodes, 1, Len(nodes) - 1)), nodes[Len(nodes)])

toc_template_to_nodes(t) ==
    LET section_tree == Get(t, "section_tree", <<>>)
        nodes == [i \in 1..Len(section_tree) |->
                    SectionNode(Get(section_tree[i], "title", "Section " \o ToString(i)),
                                Get(section_tree[i], "level", 1),
                                Get(section_tree[i], "order", i - 1),
                                Get(section_tree[i], "parent", NoParent))]
    IN SortNodes(nodes)

\* The parent links from position i of tree lead to a top-level node within n steps
RECURSIVE ValidChain(_, _, _)
ValidChain(tree, i, n) ==
    IF tree[i].parent = NoParent THEN TRUE
    ELSE IF n = 0 \/ tree[i].parent.tag # "int" THEN FALSE
    ELSE IF tree[i].parent.v < 0 \/ tree[i].parent.v >= Len(tree) THEN FALSE
    ELSE ValidChain(tree, tree[i].parent.v + 1, n - 1)

\* default_sections of generate_advanced_proposal
DefaultNodes ==
    << SectionNode("Executive Summary", 1, 0, NoParent),
       SectionNode("Technical Approach", 1, 1, NoParent),
       SectionNode("Commercial Terms", 1, 2, NoParent) >>

\* Templates a run may be given: a section_tree of n entries whose first entry
\* is the top-level heading and whose other entries are its children; rev
\* stores the entries in the reverse of their order keys.
TemplateTitle(i) == "Part " \o ToString(i)

SectionTree(n, rev) ==
    [i \in 1..n |->
        LET k == IF rev THEN n + 1 - i ELSE i
        IN [title |-> TemplateTitle(k),
            level |-> IF k = 1 THEN 1 ELSE 2,
            order |-> k - 1,
            parent |-> IF k = 1 THEN NoParent
                       ELSE IntParent(IF rev THEN n - 1 ELSE 0)]]

Templates ==
    {[name |-> "No tree"]}
    \cup {[name |-> "Uploaded", section_tree |-> SectionTree(n, FALSE)] : n \in 0..MaxNodes}
    \cup {[name |-> "Uploaded", section_tree |-> SectionTree(MaxNodes, TRUE)]}

\* The toc_template argument: None or a template dict.
TemplateArgs == {<<>>} \cup {<<t>> : t \in Templates}

(***************************************************************************)
(* Section pipeline: retrieval, draft, refine, result entries.             *)
(***************************************************************************)
\* top_k of generate_advanced_proposal
TopK == 6

\* An exception: its class and str(e)
Exc(type, text) == [type |-> type, text |-> text]

ImportFailure ==
    Exc("ImportError",
        <<Text("cannot import name 'get_toc_templates' from 'toc_extractor'")>>)
RetrievalFailure == Exc("RuntimeError", <<Text("vector store unavailable")>>)
DraftCallFailure == Exc("APIError", <<Text("draft request failed")>>)
RefineCallFailure == Exc("APIError", <<Text("refine request failed")>>)

\* Provenance ids the RFQ collection may return for a node
RetrievedIds == { <<>>, <<"doc1#p1">> }

\* Objects the model may answer with
DraftObj == [title |-> "Draft", content |-> <<Text("draft body")>>]
RefinedObj ==
    [title |-> "Refined", content |-> <<Text("refined body")>>,
     notes |-> <<"reviewed">>, risks |-> <<>>, assumptions |-> <<>>,
     image_suggestions |-> <<>>]
OtherObj == [content |-> <<Text("alternative body")>>]

\* Raw responses of the draft call and of the refine call: the bare object,
\* the object wrapped in prose, and text holding no single object
DraftReplies ==
    { <<Obj(DraftObj)>>,
      <<Text("Here is the section:"), Obj(DraftObj), Text("Done.")>>,
      <<Text("I cannot help with that.")>> }
RefineReplies ==
    { <<Obj(RefinedObj)>>,
      <<Text("Refined version:"), Obj(RefinedObj)>>,
      <<Obj(RefinedObj), Text("or"), Obj(OtherObj)>> }

ObjPositions(raw) == {i \in DOMAIN raw : raw[i].k = "obj"}
Min(S) == CHOOSE x \in S : \A y \in S : x <= y
Max(S) == CHOOSE x \in S : \A y \in S : x >= y

\* raw[start:end] with start = raw.find("{") and end = raw.rfind("}") + 1
BraceSlice(raw) ==
    IF ObjPositions(raw) = {} THEN <<>>
    ELSE SubSeq(raw, Min(ObjPositions(raw)), Max(ObjPositions(raw)))

\* json.loads on a token sequence: it succeeds on exactly one JSON value, an
\* object (a dict) or another value
Loads(raw) ==
    IF Len(raw) = 1 /\ raw[1].k = "obj"
    THEN [ok |-> TRUE, isdict |-> TRUE, obj |-> raw[1].o]
    ELSE IF Len(raw) = 1 /\ raw[1].k = "val"
    THEN [ok |-> TRUE, isdict |-> FALSE, obj |-> raw[1].v]
    ELSE [ok |-> FALSE, isdict |-> FALSE]

\* Faulty variant of ParseReply: only the direct parse, no second attempt.
ParseReply_direct(raw) == Loads(raw)

\* The try / except ladder of generate_advanced_section and refine_section_advanced
ParseReply(raw) == IF Loads(raw).ok THEN Loads(raw) ELSE Loads(BraceSlice(raw))

DraftParseFailure(raw) ==
    Exc("ValueError", <<Text("LLM did not return valid JSON. Raw response: ")>> \o raw)
RefineParseFailure(raw) ==
    Exc("ValueError", <<Text("Refinement failed. Raw response: ")>> \o raw)

\* Orders in which list(set(xs)) may enumerate the set
Orderings(S) ==
    {q \in [1..Cardinality(S) -> S] : \A i, j \in DOMAIN q : i # j => q[i] # q[j]}

\* [str(rid) for rid in rfq_ids if rid]
TruthyIds(ids) == SelectSeq(ids, LAMBDA rid : rid # "")

\* output["cited_chunks"] + [...] raises TypeError when the model set the field
\* to null: setdefault leaves a null in place
NormalizeRaises(output) == SetDefault(output, "cited_chunks", <<>>)["cited_chunks"] = JsonNull

CitedTypeFailure ==
    Exc("TypeError",
        <<Text("unsupported operand type(s) for +: 'NoneType' and 'list'")>>)

\* Faulty variant of NormalizedDrafts: the retrieved ids are not merged in.
NormalizedDrafts_unmerged(output, ids) ==
    LET o1 == SetDefault(output, "cited_chunks", <<>>)
    IN { SetDefault(SetDefault(SetDefault(SetDefault(
            Put(o1, "cited_chunks", cited),
            "image_suggestions", <<>>), "notes", <<>>), "risks", <<>>),
            "assumptions", <<>>) : cited \in Orderings(Range(o1["cited_chunks"])) }

\* The results generate_advanced_section may return for a parsed draft
NormalizedDrafts(output, ids) ==
    LET o1 == SetDefault(output, "cited_chunks", <<>>)
        merged == Range(o1["cited_chunks"] \o TruthyIds(ids))
    IN { SetDefault(SetDefault(SetDefault(SetDefault(
            Put(o1, "cited_chunks", cited),
            "image_suggestions", <<>>), "notes", <<>>), "risks", <<>>),
            "assumptions", <<>>) : cited \in Orderings(merged) }

\* output.setdefault / output.get on a parsed value that is not a dict
AttributeFailure(method) ==
    Exc("AttributeError", <<Text("object has no attribute"), Text(method)>>)

\* What a call does: it raises e, or returns value
Raised(e) == [raised |-> TRUE, exc |-> e]
Returned(value) == [raised |-> FALSE, value |-> value]

\* generate_advanced_section from the raw response on: the outcomes it may have
DraftOutcomes(raw, ids) ==
    IF ~ParseReply(raw).ok THEN {Raised(DraftParseFailure(raw))}
    ELSE IF ~ParseReply(raw).isdict THEN {Raised(AttributeFailure("setdefault"))}
    ELSE IF NormalizeRaises(ParseReply(raw).obj) THEN {Raised(CitedTypeFailure)}
    ELSE {Returned(d) : d \in NormalizedDrafts(ParseReply(raw).obj, ids)}

\* refine_section_advanced from the raw response on
RefineOutcomes(raw) ==
    IF ~ParseReply(raw).ok THEN {Raised(RefineParseFailure(raw))}
    ELSE IF ~ParseReply(raw).isdict THEN {Raised(AttributeFailure("get"))}
    ELSE {Returned(ParseReply(raw).obj)}

\* No call has returned yet
NoResponse == [fn |-> "none", raw |-> <<>>, out |-> Raised(Exc("none", <<>>))]

\* Entry appended to sections_payload for a generated node; of_node records
\* the position of the outline node the iteration was working on.
SectionEntry(node, i, refined) ==
    [title |-> Get(refined, "title", node.title),
     content |-> Get(refined, "content", <<>>),
     level |-> node.level,
     notes |-> Get(refined, "notes", <<>>),
     risks |-> Get(refined, "risks", <<>>),
     assumptions |-> Get(refined, "assumptions", <<>>),
     image_suggestions |-> Get(refined, "image_suggestions", <<>>),
     of_node |-> i]

EvidenceEntry(node, i, outline_path, draft, refined) ==
    [title |-> node.title,
     level |-> node.level,
     outline_path |-> outline_path,
     retrieval_top_k |-> TopK,
     retrieved |-> Get(draft, "cited_chunks", <<>>),
     notes |-> Get(refined, "notes", <<>>),
     risks |-> Get(refined, "risks", <<>>),
     assumptions |-> Get(refined, "assumptions", <<>>),
     of_node |-> i]

FailureNotice ==
    Text("**\n\nContent generation failed. Please regenerate this section.\n\nError: ")

\* Entry appended by the per-node except branch
FallbackEntry(node, i, e) ==
    [title |-> node.title,
     content |-> <<Text("**"), Text(node.title), FailureNotice>> \o e.text,
     level |-> node.level,
     notes |-> <<>>,
     risks |-> <<>>,
     assumptions |-> <<>>,
     image_suggestions |-> <<>>,
     of_node |-> i]

\* Faulty variant of SectionsAfterFailure: the failed node leaves no entry.
SectionsAfterFailure_dropped(secs, node, i, e) == secs

\* Faulty variant of SectionsAfterFailure: the placeholder is put in front of the list.
SectionsAfterFailure_front(secs, node, i, e) == <<FallbackEntry(node, i, e)>> \o secs

\* sections_payload after the except branch ran for node i
SectionsAfterFailure(secs, node, i, e) == Append(secs, FallbackEntry(node, i, e))

\* evidence_log["sections"] after the except branch ran: the branch does not touch it
EvidenceAfterFailure(log, node, i, e) == log

SectionsAfterSuccess(secs, node, i, refined) == Append(secs, SectionEntry(node, i, refined))

EvidenceAfterSuccess(log, node, i, tree, draft, refined) ==
    Append(log, EvidenceEntry(node, i, path_str(node, tree), draft, refined))

(***************************************************************************)
(* The worker: generate_advanced_proposal, one action per step.            *)
(***************************************************************************)
HasSession(w) == session_id[w] # None

\* Session ids a run started by worker w may be given
SessionArgs(w) == {None, IF w = "w1" THEN "s1" ELSE "s2"}

\* Faulty variant of LoopPc: the next node is begun without wait_if_paused.
LoopPc_unchecked(sid, i, nodes) ==
    IF i < Len(nodes) THEN "retrieve"
    ELSE IF sid # None THEN "mark_completed" ELSE "returned"

\* Position after i iterations are over: the loop header and what follows the loop
LoopPc(sid, i, nodes) ==
    IF i < Len(nodes)
    THEN IF sid # None THEN "wait" ELSE "retrieve"
    ELSE IF sid # None THEN "mark_completed" ELSE "returned"

\* Positions at which the node toc_nodes[idx + 1] is being processed
InNode == {"progress", "retrieve", "draft", "refine"}

\* Positions of a run that has neither returned nor raised
InProgress == {"load", "report_total", "wait", "wait_locked", "sleep", "mark_stopped",
               "mark_completed", "final_progress"} \cup InNode

\* Nodes whose processing has begun (wait_if_paused let the worker through)
Started(w) == idx[w] + (IF pc[w] \in InNode THEN 1 ELSE 0)

CurrentNode(w) == toc_nodes[w][idx[w] + 1]

\* generate_advanced_proposal is called: the session is created when an id is given
CallWith(w, sids, templates) ==
    /\ pc[w] = "idle"
    /\ \E sid \in sids, t \in templates :
        /\ session_id' = [session_id EXCEPT ![w] = sid]
        /\ toc_template' = [toc_template EXCEPT ![w] = t]
        /\ sessions' = IF sid # None THEN create_session(sessions, sid) ELSE sessions
        /\ last_writer' = IF sid = None THEN last_writer
                          ELSE [last_writer EXCEPT ![sid] = "worker"]
        /\ stop_mark' = IF sid = None THEN stop_mark ELSE [stop_mark EXCEPT ![sid] = -1]
    /\ pc' = [pc EXCEPT ![w] = "load"]
    /\ UNCHANGED <<toc_nodes, idx, sections_payload, evidence_log, rfq_ids,
                   draft_json, status_seen, exc, node_exc>>

Call(w) == CallWith(w, SessionArgs(w), TemplateArgs)

\* The outline of the run: toc_template_to_nodes of the template, or the default
\* outline when the template has no section_tree entries
Outline(t) ==
    IF Len(Get(t, "section_tree", <<>>)) > 0 THEN toc_template_to_nodes(t)
    ELSE DefaultNodes

\* Without a template the function imports get_toc_templates from toc_extractor,
\* which defines no such name: the import raises and leaves the function.
LoadOutline(w) ==
    /\ pc[w] = "load"
    /\ IF toc_template[w] = <<>>
       THEN /\ exc' = [exc EXCEPT ![w] = <<ImportFailure>>]
            /\ pc' = [pc EXCEPT ![w] = "raised"]
            /\ UNCHANGED toc_nodes
       ELSE /\ toc_nodes' = [toc_nodes EXCEPT ![w] = Outline(toc_template[w][1])]
            /\ pc' = [pc EXCEPT ![w] =
                        IF HasSession(w) THEN "report_total"
                        ELSE LoopPc(None, 0, Outline(toc_template[w][1]))]
            /\ UNCHANGED exc
    /\ UNCHANGED <<sessions, session_id, toc_template, idx, sections_payload,
                   evidence_log, rfq_ids, draft_json, status_seen, node_exc,
                   last_writer, stop_mark>>

\* controller.update_progress(session_id, '', 0, len(toc_nodes))
ReportTotal(w) ==
    /\ pc[w] = "report_total"
    /\ sessions' = update_progress(sessions, session_id[w], "", 0, Len(toc_nodes[w]))
    /\ pc' = [pc EXCEPT ![w] = LoopPc(session_id[w], 0, toc_nodes[w])]
    /\ UNCHANGED <<session_id, toc_template, toc_nodes, idx, sections_payload,
                   evidence_log, rfq_ids, draft_json, status_seen, exc, node_exc,
                   last_writer, stop_mark>>

\* One locked check of wait_if_paused
WaitIfPaused(w) ==
    /\ pc[w] = "wait"
    /\ status_seen' = [status_seen EXCEPT ![w] = Observe(sessions, session_id[w])]
    /\ pc' = [pc EXCEPT ![w] =
                LET r == wait_if_paused(Observe(sessions, session_id[w]))
                IN IF r = "true" THEN "progress"
                   ELSE IF r = "false" THEN "mark_stopped"
                   ELSE "sleep"]
    /\ UNCHANGED <<sessions, session_id, toc_template, toc_nodes, idx,
                   sections_payload, evidence_log, rfq_ids, draft_json, exc,
                   node_exc, last_writer, stop_mark>>

\* time.sleep(check_interval), outside the lock
Sleep(w) ==
    /\ pc[w] = "sleep"
    /\ pc' = [pc EXCEPT ![w] = "wait"]
    /\ UNCHANGED <<sessions, session_id, toc_template, toc_nodes, idx,
                   sections_payload, evidence_log, rfq_ids, draft_json,
                   status_seen, exc, node_exc, last_writer, stop_mark>>

\* controller.set_status(session_id, STOPPED, "Stopped by user"); break
MarkStopped(w) ==
    /\ pc[w] = "mark_stopped"
    /\ sessions' = set_status(sessions, session_id[w], STOPPED, "Stopped by user")
    /\ last_writer' = IF session_id[w] \in DOMAIN sessions
                      THEN [last_writer EXCEPT ![session_id[w]] = "worker"]
                      ELSE last_writer
    /\ pc' = [pc EXCEPT ![w] = "mark_completed"]
    /\ UNCHANGED <<session_id, toc_template, toc_nodes, idx, sections_payload,
                   evidence_log, rfq_ids, draft_json, status_seen, exc, node_exc,
                   stop_mark>>

\* controller.update_progress(session_id, node.title, idx, len(toc_nodes))
UpdateProgress(w) ==
    /\ pc[w] = "progress"
    /\ sessions' = update_progress(sessions, session_id[w], CurrentNode(w).title,
                                   idx[w], Len(toc_nodes[w]))
    /\ pc' = [pc EXCEPT ![w] = "retrieve"]
    /\ UNCHANGED <<session_id, toc_template, toc_nodes, idx, sections_payload,
                   evidence_log, rfq_ids, draft_json, status_seen, exc, node_exc,
                   last_writer, stop_mark>>

\* The per-node except branch: a placeholder section, then the next iteration
Fallback(w, e) ==
    /\ sections_payload' = [sections_payload EXCEPT ![w] =
            SectionsAfterFailure(sections_payload[w], CurrentNode(w), idx[w] + 1, e)]
    /\ evidence_log' = [evidence_log EXCEPT ![w] =
            EvidenceAfterFailure(evidence_log[w], CurrentNode(w), idx[w] + 1, e)]
    /\ node_exc' = [node_exc EXCEPT ![w] = Append(node_exc[w], <<e>>)]
    /\ idx' = [idx EXCEPT ![w] = idx[w] + 1]
    /\ rfq_ids' = [rfq_ids EXCEPT ![w] = <<>>]
    /\ draft_json' = [draft_json EXCEPT ![w] = <<>>]
    /\ pc' = [pc EXCEPT ![w] = LoopPc(session_id[w], idx[w] + 1, toc_nodes[w])]

\* _retrieve_context_langchain: search of the RFQ collection returns or raises
RetrieveWith(w, outcomes, idlists) ==
    /\ pc[w] = "retrieve"
    /\ \E outcome \in outcomes :
        IF outcome = "ok"
        THEN /\ \E ids \in idlists : rfq_ids' = [rfq_ids EXCEPT ![w] = ids]
             /\ pc' = [pc EXCEPT ![w] = "draft"]
             /\ UNCHANGED <<idx, sections_payload, evidence_log, draft_json, node_exc>>
        ELSE Fallback(w, RetrievalFailure)
    /\ UNCHANGED <<sessions, session_id, toc_template, toc_nodes, status_seen, exc,
                   last_writer, stop_mark>>

Retrieve(w) == RetrieveWith(w, {"ok", "raise"}, RetrievedIds)

\* The draft call of generate_advanced_section, its parse and its normalization;
\* the reply <<>> stands for a call that raises
DraftWith(w, replies) ==
    /\ pc[w] = "draft"
    /\ \E reply \in replies :
        IF reply = <<>>
        THEN Fallback(w, DraftCallFailure)
        ELSE \E out \in DraftOutcomes(reply, rfq_ids[w]) :
            IF out.raised
            THEN Fallback(w, out.exc)
            ELSE /\ draft_json' = [draft_json EXCEPT ![w] = <<out.value>>]
                 /\ pc' = [pc EXCEPT ![w] = "refine"]
                 /\ UNCHANGED <<idx, sections_payload, evidence_log, rfq_ids, node_exc>>
    /\ UNCHANGED <<sessions, session_id, toc_template, toc_nodes, status_seen, exc,
                   last_writer, stop_mark>>

Draft(w) == DraftWith(w, DraftReplies \cup {<<>>})

\* refine_section_advanced, then the two appends of the try block; the reply
\* <<>> stands for a call that raises
RefineWith(w, replies) ==
    /\ pc[w] = "refine"
    /\ \E reply \in replies :
        IF reply = <<>>
        THEN Fallback(w, RefineCallFailure)
        ELSE \E out \in RefineOutcomes(reply) :
          IF out.raised
          THEN Fallback(w, out.exc)
          ELSE
             /\ sections_payload' = [sections_payload EXCEPT ![w] =
                    SectionsAfterSuccess(sections_payload[w], CurrentNode(w),
                                         idx[w] + 1, out.value)]
             /\ evidence_log' = [evidence_log EXCEPT ![w] =
                    EvidenceAfterSuccess(evidence_log[w], CurrentNode(w), idx[w] + 1,
                                         toc_nodes[w], draft_json[w][1],
                                         out.value)]
             /\ node_exc' = [node_exc EXCEPT ![w] = Append(node_exc[w], <<>>)]
             /\ idx' = [idx EXCEPT ![w] = idx[w] + 1]
             /\ rfq_ids' = [rfq_ids EXCEPT ![w] = <<>>]
             /\ draft_json' = [draft_json EXCEPT ![w] = <<>>]
             /\ pc' = [pc EXCEPT ![w] = LoopPc(session_id[w], idx[w] + 1, toc_nodes[w])]
    /\ UNCHANGED <<sessions, session_id, toc_template, toc_nodes, status_seen, exc,
                   last_writer, stop_mark>>

Refine(w) == RefineWith(w, RefineReplies \cup {<<>>})

\* controller.set_status(session_id, COMPLETED, ...), reached after the loop
\* whether it ran to its end or was left by break
MarkCompleted(w) ==
    /\ pc[w] = "mark_completed"
    /\ sessions' = set_status(sessions, session_id[w], COMPLETED,
                              "Proposal generation completed")
    /\ last_writer' = IF session_id[w] \in DOMAIN sessions
                      THEN [last_writer EXCEPT ![session_id[w]] = "worker"]
                      ELSE last_writer
    /\ pc' = [pc EXCEPT ![w] = "final_progress"]
    /\ UNCHANGED <<session_id, toc_template, toc_nodes, idx, sections_payload,
                   evidence_log, rfq_ids, draft_json, status_seen, exc, node_exc,
                   stop_mark>>

\* controller.update_progress(session_id, "Completed", n, n); return proposal_result
FinalProgress(w) ==
    /\ pc[w] = "final_progress"
    /\ sessions' = update_progress(sessions, session_id[w], "Completed",
                                   Len(toc_nodes[w]), Len(toc_nodes[w]))
    /\ pc' = [pc EXCEPT ![w] = "returned"]
    /\ UNCHANGED <<session_id, toc_template, toc_nodes, idx, sections_payload,
                   evidence_log, rfq_ids, draft_json, status_seen, exc, node_exc,
                   last_writer, stop_mark>>

WorkerStep(w) ==
    \/ Call(w)
    \/ LoadOutline(w)
    \/ ReportTotal(w)
    \/ WaitIfPaused(w)
    \/ Sleep(w)
    \/ MarkStopped(w)
    \/ UpdateProgress(w)
    \/ Retrieve(w)
    \/ Draft(w)
    \/ Refine(w)
    \/ MarkCompleted(w)
    \/ FinalProgress(w)

(***************************************************************************)
(* Control calls of an external caller, at any time.                       *)
(***************************************************************************)
\* The run, if any, that was started with session id
RunOf(id) == {w \in Workers : session_id[w] = id /\ pc[w] \in InProgress}

Touched(id, after) ==
    IF after # sessions THEN [last_writer EXCEPT ![id] = "control"] ELSE last_writer

PauseCall(id) ==
    /\ sessions' = pause(sessions, id)
    /\ last_writer' = Touched(id, pause(sessions, id))
    /\ UNCHANGED <<worker_vars, stop_mark>>

ResumeCall(id) ==
    /\ sessions' = resume(sessions, id)
    /\ last_writer' = Touched(id, resume(sessions, id))
    /\ UNCHANGED <<worker_vars, stop_mark>>

StopCall(id) ==
    /\ sessions' = stop(sessions, id)
    /\ last_writer' = Touched(id, stop(sessions, id))
    /\ stop_mark' =
          IF id \in DOMAIN sessions /\ stop_mark[id] = -1 /\ RunOf(id) # {}
          THEN [stop_mark EXCEPT ![id] = Started(CHOOSE w \in RunOf(id) : TRUE)]
          ELSE stop_mark
    /\ UNCHANGED worker_vars

CleanupCall(id) ==
    /\ sessions' = cleanup_session(sessions, id)
    /\ last_writer' = Touched(id, cleanup_session(sessions, id))
    /\ UNCHANGED <<worker_vars, stop_mark>>

Control(id) ==
    \/ PauseCall(id)
    \/ ResumeCall(id)
    \/ StopCall(id)
    \/ CleanupCall(id)

(***************************************************************************)
(* The prompt library (prompts.py).  A text is a sequence of lines; an     *)
(* empty text is the empty string.                                         *)
(***************************************************************************)
\* Stands for MAX_CONTEXT_CHARS, counted in lines
MaxContextLines == 3

\* text[:MAX_CONTEXT_CHARS]
Clip(text) == SubSeq(text, 1, Min({Len(text), MaxContextLines}))

\* part occurs in whole (Python's "part in whole")
Within(part, whole) ==
    \E i \in 0..(Len(whole) - Len(part)) : SubSeq(whole, i + 1, i + Len(part)) = part

STRICT_JSON_SCHEMA ==
    << "",
       "You MUST output STRICT JSON only, with this schema:",
       "{",
       "  \"title\": str,",
       "  \"content\": str,",
       "  \"image_suggestions\": [",
       "    {\"placeholder_id\": str, \"description\": str, \"position\": \"before|after|inline\"}",
       "  ],",
       "  \"cited_chunks\": [str],",
       "  \"notes\": [str],",
       "  \"risks\": [str],",
       "  \"assumptions\": [str]",
       "}" >>

DRAFT_SYSTEM_ROLE ==
    << "You are a senior proposal writer. ",
       "Generate professional proposal sections based on provided evidence and template examples. ",
       "Follow the JSON schema exactly. If information is missing, insert [[TODO: ...]]. ",
       "Focus on getting the facts and structure right - polish comes later." >>

REFINE_SYSTEM_ROLE ==
    << "You are an expert proposal editor and compliance officer. ",
       "Your job is to polish and refine draft proposal content. ",
       "Ensure compliance, improve clarity, fix tone, and match the template's writing style. ",
       "Output STRICT JSON only. Maintain all [[TODO: ...]] placeholders." >>

\* TEMPLATE_STYLE_PROMPT.format(**a)
TEMPLATE_STYLE_PROMPT(a) ==
    << "",
       "SECTION TITLE: " \o a.title,
       "SECTION LEVEL: " \o ToString(a.level),
       "OUTLINE PATH: " \o a.outline_path,
       "",
       "[WRITING SAMPLE FROM TEMPLATE]" >>
    \o a.template_writing_sample
    \o << "", "[RFQ CONTEXT]" >>
    \o a.rfq_excerpt
    \o << "", "[EVIDENCE CONTEXT]" >>
    \o a.context
    \o << "",
          "INSTRUCTIONS:",
          "1) Write the \"" \o a.title
              \o "\" section matching the style from the template writing sample above",
          "2) TARGET WORD COUNT: " \o ToString(a.target_words) \o " (+-10%)",
          "3) WRITING STYLE: Match the template's style as closely as possible",
          "4) TABLES: Include " \o ToString(a.table_count) \o " table(s) if expected",
          "5) IMAGES: Suggest " \o ToString(a.image_count)
              \o " image placeholder(s) if expected",
          "6) Use ONLY provided evidence. Insert [[TODO: ...]] for missing information",
          "7) Follow the JSON schema exactly",
          "" >>
    \o a.schema

\* The INSTRUCTIONS of each entry of SECTION_PROMPTS
SectionInstructions(section_type) ==
    CASE section_type = "technical" ->
           << "1) Write a precise, factual technical section.",
              "2) Include specifications, KPIs, and performance metrics.",
              "3) Use tables or bullet points if needed (e.g., spec comparison, KPIs).",
              "4) Do not invent values. Insert [[TODO: ...]] if missing.",
              "5) Follow the JSON schema." >>
      [] section_type = "commercial" ->
           << "1) Write a commercial terms section with formal contract language.",
              "2) Cover payment terms, delivery, validity, taxes, and warranties.",
              "3) Use structured bullets or a table where possible (e.g., term -> condition).",
              "4) No assumptions beyond provided evidence.",
              "5) Follow the JSON schema." >>
      [] section_type = "compliance" ->
           << "1) Ensure every statement is evidence-backed.",
              "2) Present compliance in matrix style if possible (requirement vs. response).",
              "3) If compliance status cannot be confirmed, use [[TODO: verify compliance]].",
              "4) Formal, audit-ready tone (e.g., \"The bidder hereby confirms...\").",
              "5) Follow the JSON schema." >>
      [] section_type = "corporate" ->
           << "1) Write in a polished, narrative style highlighting company strengths.",
              "2) Emphasize track record, past projects, and credentials.",
              "3) Tone: persuasive but factual, client-facing.",
              "4) Include visuals where appropriate (org chart, project photo placeholder).",
              "5) Follow the JSON schema." >>

SectionTypes == {"technical", "commercial", "compliance", "corporate"}

\* SECTION_PROMPTS[section_type].format(**a)
SECTION_PROMPTS(section_type, a) ==
    << "",
       "SECTION TITLE: " \o a.title,
       "SECTION LEVEL: " \o ToString(a.level),
       "OUTLINE PATH: " \o a.outline_path,
       "",
       "[RFQ EXCERPT]" >>
    \o a.rfq_excerpt
    \o << "", "[EVIDENCE CONTEXT]" >>
    \o a.context
    \o << "", "INSTRUCTIONS:" >>
    \o SectionInstructions(section_type)
    \o a.schema

\* A title is a sequence of words; the keys of TOC_PROMPT_MAP in their order
TOC_PROMPT_MAP ==
    << [key |-> <<"Technical", "Specifications">>, ptype |-> "technical"],
       [key |-> <<"Project", "Scope">>, ptype |-> "technical"],
       [key |-> <<"Technical", "Approach">>, ptype |-> "technical"],
       [key |-> <<"Implementation", "Plan">>, ptype |-> "technical"],
       [key |-> <<"HSE", "Requirements">>, ptype |-> "compliance"],
       [key |-> <<"Compliance", "Matrix">>, ptype |-> "compliance"],
       [key |-> <<"Payment", "Terms">>, ptype |-> "commercial"],
       [key |-> <<"Commercial", "Proposal">>, ptype |-> "commercial"],
       [key |-> <<"Commercial", "Terms">>, ptype |-> "commercial"],
       [key |-> <<"Company", "Profile">>, ptype |-> "corporate"],
       [key |-> <<"Past", "Projects">>, ptype |-> "corporate"],
       [key |-> <<"Team", "&", "Qualifications">>, ptype |-> "corporate"],
       [key |-> <<"Executive", "Summary">>, ptype |-> "corporate"] >>

\* str.lower() of a word
LowerWord(word) ==
    CASE word \in {"Technical", "TECHNICAL"} -> "technical"
      [] word = "Specifications" -> "specifications"
      [] word = "Project" -> "project"
      [] word = "Scope" -> "scope"
      [] word = "Approach" -> "approach"
      [] word = "Implementation" -> "implementation"
      [] word = "Plan" -> "plan"
      [] word = "HSE" -> "hse"
      [] word = "Requirements" -> "requirements"
      [] word = "Compliance" -> "compliance"
      [] word = "Matrix" -> "matrix"
      [] word = "Payment" -> "payment"
      [] word \in {"Terms", "TERMS"} -> "terms"
      [] word \in {"Commercial", "COMMERCIAL"} -> "commercial"
      [] word = "Proposal" -> "proposal"
      [] word = "Company" -> "company"
      [] word = "Profile" -> "profile"
      [] word = "Past" -> "past"
      [] word = "Projects" -> "projects"
      [] word = "Team" -> "team"
      [] word = "Qualifications" -> "qualifications"
      [] word = "Executive" -> "executive"
      [] word = "Summary" -> "summary"
      [] word = "Part" -> "part"
      [] OTHER -> word

Lower(words) == [i \in DOMAIN words |-> LowerWord(words[i])]

\* " ".join(words)
RECURSIVE JoinWords(_)
JoinWords(words) ==
    IF words = <<>> THEN ""
    ELSE IF Len(words) = 1 THEN words[1]
    ELSE words[1] \o " " \o JoinWords(Tail(words))

\* pick_prompt_type: the type of the first key found in the lowered title
pick_prompt_type(section_title) ==
    LET hits == {i \in DOMAIN TOC_PROMPT_MAP :
                    Within(Lower(TOC_PROMPT_MAP[i].key), Lower(section_title))}
    IN  IF hits = {} THEN "technical" ELSE TOC_PROMPT_MAP[Min(hits)].ptype

\* build_prompt: title is the title string
build_prompt(section_type, title, level, outline_path, rfq_excerpt, context) ==
    LET tmpl_type == IF section_type \in SectionTypes THEN section_type ELSE "technical"
    IN  SECTION_PROMPTS(tmpl_type,
            [title |-> title, level |-> level, outline_path |-> outline_path,
             rfq_excerpt |-> IF rfq_excerpt = <<>>
                             THEN << "[[TODO: RFQ excerpt missing]]" >>
                             ELSE rfq_excerpt,
             context |-> IF context = <<>>
                         THEN << "[[TODO: context missing]]" >>
                         ELSE context,
             schema |-> STRICT_JSON_SCHEMA])

build_template_prompt(title, level, outline_path, rfq_excerpt, context, template_data) ==
    TEMPLATE_STYLE_PROMPT(
        [title |-> title, level |-> level, outline_path |-> outline_path,
         template_writing_sample |-> Get(template_data, "writing_sample", <<>>),
         rfq_excerpt |-> Clip(rfq_excerpt),
         context |-> Clip(context),
         target_words |-> Get(template_data, "target_words", 200),
         table_count |-> Get(template_data, "table_count", 0),
         image_count |-> Get(template_data, "image_count", 0),
         schema |-> STRICT_JSON_SCHEMA])

\* REFINE_PROMPT.format(...) in build_refine_prompt
build_refine_prompt(draft, rfq_excerpt, template_style_notes) ==
    << "",
       "You are refining a draft proposal section to ensure it meets quality standards.",
       "",
       "[ORIGINAL DRAFT]" >>
    \o draft
    \o << "", "[RFQ EXCERPT FOR CONTEXT]" >>
    \o Clip(rfq_excerpt)
    \o << "", "[TEMPLATE STYLE REFERENCE]" >>
    \o template_style_notes
    \o << "",
          "REFINEMENT INSTRUCTIONS:",
          "1) Improve clarity, flow, and readability",
          "2) Ensure compliance with RFQ requirements",
          "3) Match the formality and tone from the template",
          "4) Fix any grammar, spelling, or formatting issues",
          "5) Maintain all [[TODO: ...]] placeholders - do not remove them",
          "6) Ensure target word count is met (+-10%)",
          "7) Keep all cited_chunks, notes, risks, assumptions",
          "8) Output STRICT JSON with the same schema",
          "" >>
    \o STRICT_JSON_SCHEMA

\* The context of generate_advanced_section: the RFQ texts under their
\* heading, then each collection of kb_map that has texts
FullContext(rfq_texts, kb_texts) ==
    << "[RFQ CONTEXT]" >> \o rfq_texts
    \o (IF kb_texts = <<>> THEN <<>> ELSE << "", "[TEMPLATES]" >> \o kb_texts)

\* The messages of the draft call of generate_advanced_section
DraftMessages(section_title, level, outline_path, rfq_texts, kb_texts, template_data) ==
    LET rfq_excerpt == Clip(rfq_texts)
        context == Clip(FullContext(rfq_texts, kb_texts))
        title == JoinWords(section_title)
        styled == /\ template_data # <<>>
                  /\ Get(template_data[1], "writing_sample", <<>>) # <<>>
    IN  [kind |-> IF styled THEN "template" ELSE pick_prompt_type(section_title),
         system |-> DRAFT_SYSTEM_ROLE,
         user |-> IF styled
                  THEN build_template_prompt(title, level, outline_path, rfq_excerpt,
                                             context, template_data[1])
                  ELSE build_prompt(pick_prompt_type(section_title), title, level,
                                    outline_path, rfq_excerpt, context)]

\* The messages of the refine call of refine_section_advanced
RefineMessages(rfq_excerpt, draft, template_style_notes) ==
    [kind |-> "refine",
     system |-> REFINE_SYSTEM_ROLE,
     user |-> build_refine_prompt(draft, Clip(rfq_excerpt), template_style_notes)]

\* No call has been made
NoPrompt == [kind |-> "none", system |-> <<>>, user |-> <<>>]

(***************************************************************************)
(* Specification: one run, with or without a session, and a caller that    *)
(* may issue control calls on the run's session id at any time.            *)
(***************************************************************************)
Init ==
    /\ sessions = <<>>
    /\ pc = [w \in Workers |-> IF w = "w1" THEN "idle" ELSE "off"]
    /\ session_id = [w \in Workers |-> None]
    /\ toc_template = [w \in Workers |-> <<>>]
    /\ toc_nodes = [w \in Workers |-> <<>>]
    /\ idx = [w \in Workers |-> 0]
    /\ sections_payload = [w \in Workers |-> <<>>]
    /\ evidence_log = [w \in Workers |-> <<>>]
    /\ rfq_ids = [w \in Workers |-> <<>>]
    /\ draft_json = [w \in Workers |-> <<>>]
    /\ status_seen = [w \in Workers |-> "none"]
    /\ exc = [w \in Workers |-> <<>>]
    /\ node_exc = [w \in Workers |-> <<>>]
    /\ last_writer = [id \in SessionIds |-> "none"]
    /\ stop_mark = [id \in SessionIds |-> -1]
    /\ lock = "free"
    /\ poll_pc = "idle"
    /\ poll_ref = None
    /\ poll_obj = <<>>
    /\ poll_seen = <<>>
    /\ poll_held = {}
    /\ outline_paths = [w \in Workers |-> <<>>]
    /\ prompt = NoPrompt
    /\ response = NoResponse
    /\ ret = NoReturn

\* In this specification every controller method takes the lock and releases
\* it within its step, and nobody polls the status.
Quiet == UNCHANGED <<lock, poll_vars, outline_paths, prompt, response, ret>>

Next ==
    \/ \E w \in Workers : Call(w) /\ Quiet
    \/ \E w \in Workers : LoadOutline(w) /\ Quiet
    \/ \E w \in Workers : ReportTotal(w) /\ Quiet
    \/ \E w \in Workers : WaitIfPaused(w) /\ Quiet
    \/ \E w \in Workers : Sleep(w) /\ Quiet
    \/ \E w \in Workers : MarkStopped(w) /\ Quiet
    \/ \E w \in Workers : UpdateProgress(w) /\ Quiet
    \/ \E w \in Workers : Retrieve(w) /\ Quiet
    \/ \E w \in Workers : Draft(w) /\ Quiet
    \/ \E w \in Workers : Refine(w) /\ Quiet
    \/ \E w \in Workers : MarkCompleted(w) /\ Quiet
    \/ \E w \in Workers : FinalProgress(w) /\ Quiet
    \/ \E id \in {"s1"} : PauseCall(id) /\ Quiet
    \/ \E id \in {"s1"} : ResumeCall(id) /\ Quiet
    \/ \E id \in {"s1"} : StopCall(id) /\ Quiet
    \/ \E id \in {"s1"} : CleanupCall(id) /\ Quiet

Spec == Init /\ [][Next]_vars

(***************************************************************************)
(* Specification of two concurrent runs, each with its own session id, and *)
(* control calls on either id at any time.                                 *)
(***************************************************************************)
InitTwo ==
    /\ sessions = <<>>
    /\ pc = [w \in Workers |-> "idle"]
    /\ session_id = [w \in Workers |-> None]
    /\ toc_template = [w \in Workers |-> <<>>]
    /\ toc_nodes = [w \in Workers |-> <<>>]
    /\ idx = [w \in Workers |-> 0]
    /\ sections_payload = [w \in Workers |-> <<>>]
    /\ evidence_log = [w \in Workers |-> <<>>]
    /\ rfq_ids = [w \in Workers |-> <<>>]
    /\ draft_json = [w \in Workers |-> <<>>]
    /\ status_seen = [w \in Workers |-> "none"]
    /\ exc = [w \in Workers |-> <<>>]
    /\ node_exc = [w \in Workers |-> <<>>]
    /\ last_writer = [id \in SessionIds |-> "none"]
    /\ stop_mark = [id \in SessionIds |-> -1]
    /\ lock = "free"
    /\ poll_pc = "idle"
    /\ poll_ref = None
    /\ poll_obj = <<>>
    /\ poll_seen = <<>>
    /\ poll_held = {}
    /\ outline_paths = [w \in Workers |-> <<>>]
    /\ prompt = NoPrompt
    /\ response = NoResponse
    /\ ret = NoReturn

\* The session id of each of the two runs
SessionOf(w) == IF w = "w1" THEN "s1" ELSE "s2"

\* Their template: one section
SingleTemplate == [name |-> "Uploaded", section_tree |-> SectionTree(1, FALSE)]

TwoCall(w) == CallWith(w, {SessionOf(w)}, {<<SingleTemplate>>}) /\ Quiet
TwoRetrieve(w) == RetrieveWith(w, {"ok"}, {<<>>}) /\ Quiet
TwoDraft(w) == DraftWith(w, {<<Obj(DraftObj)>>}) /\ Quiet
TwoRefine(w) == RefineWith(w, {<<Obj(RefinedObj)>>}) /\ Quiet

NextTwo ==
    \/ \E w \in Workers : TwoCall(w)
    \/ \E w \in Workers : LoadOutline(w) /\ Quiet
    \/ \E w \in Workers : ReportTotal(w) /\ Quiet
    \/ \E w \in Workers : WaitIfPaused(w) /\ Quiet
    \/ \E w \in Workers : Sleep(w) /\ Quiet
    \/ \E w \in Workers : MarkStopped(w) /\ Quiet
    \/ \E w \in Workers : UpdateProgress(w) /\ Quiet
    \/ \E w \in Workers : TwoRetrieve(w)
    \/ \E w \in Workers : TwoDraft(w)
    \/ \E w \in Workers : TwoRefine(w)
    \/ \E w \in Workers : MarkCompleted(w) /\ Quiet
    \/ \E w \in Workers : FinalProgress(w) /\ Quiet
    \/ \E id \in SessionIds : PauseCall(id) /\ Quiet
    \/ \E id \in SessionIds : ResumeCall(id) /\ Quiet
    \/ \E id \in SessionIds : StopCall(id) /\ Quiet
    \/ \E id \in SessionIds : CleanupCall(id) /\ Quiet

SpecTwo == InitTwo /\ [][NextTwo]_vars

\* The same runs with the worker thread scheduled fairly: a step the worker can
\* take (a call that returns, a sleep that ends) is eventually taken.
(***************************************************************************)
(* Specification of the section pipeline alone: a run without a session    *)
(* over a two-node outline, with the retrieved ids and the cited_chunks of *)
(* the draft reply drawn from a wider set.                                 *)
(***************************************************************************)
\* Most chunks one search returns in this specification
MaxIds == 2

\* Provenance ids are the source file names of the chunks (ingestion.py)
Sources == {"rfq.pdf", "annex.pdf"}

SeqsUpTo(S, n) == UNION {[1..k -> S] : k \in 0..n}

\* rfq_ids: one id per chunk, so chunks of one file repeat its id
RetrievedIdLists == SeqsUpTo(Sources, MaxIds)

\* Draft replies: cited_chunks missing, empty, citing retrieved or other
\* sources, citing one twice, or null
CitedReplies ==
    {<<Obj(DraftObj)>>}
    \cup {<<Obj(Put(DraftObj, "cited_chunks", c))>> :
            c \in {<<>>, <<"rfq.pdf">>, <<"rfq.pdf", "rfq.pdf">>, <<"tender.pdf">>,
                   JsonNull}}

\* Refine replies: the full object, one without the list fields, one with
\* null list fields
BareRefinedObj == [title |-> "Refined", content |-> <<Text("refined body")>>]
NullRefinedObj ==
    [title |-> "Refined", content |-> <<Text("refined body")>>,
     notes |-> JsonNull, risks |-> JsonNull, assumptions |-> JsonNull,
     image_suggestions |-> JsonNull]
ListRefineReplies == {<<Obj(RefinedObj)>>, <<Obj(BareRefinedObj)>>, <<Obj(NullRefinedObj)>>}

DraftTemplate == [name |-> "Uploaded", section_tree |-> SectionTree(2, FALSE)]

PipelineCall(w) == CallWith(w, {None}, {<<DraftTemplate>>}) /\ Quiet
PipelineRetrieve(w) == RetrieveWith(w, {"ok"}, RetrievedIdLists) /\ Quiet
PipelineDraft(w) == DraftWith(w, CitedReplies) /\ Quiet
PipelineRefine(w) == RefineWith(w, ListRefineReplies) /\ Quiet

NextPipeline ==
    \/ \E w \in {"w1"} : PipelineCall(w)
    \/ \E w \in {"w1"} : LoadOutline(w) /\ Quiet
    \/ \E w \in {"w1"} : PipelineRetrieve(w)
    \/ \E w \in {"w1"} : PipelineDraft(w)
    \/ \E w \in {"w1"} : PipelineRefine(w)

SpecPipeline == Init /\ [][NextPipeline]_vars

(***************************************************************************)
(* Specification of path_str alone: a run without a session is given a     *)
(* template whose parent entries are arbitrary JSON values, and computes   *)
(* outline_paths for each node of the outline in turn.                      *)
(***************************************************************************)
\* Entries of the section_tree of such a template
MaxTree == 3

\* Values of "parent": null, a string, a list, and integers from below the
\* first index to beyond the last
ParentValues(n) ==
    {NoParent, StrParent("0"), ListParent} \cup {IntParent(v) : v \in -1..n}

\* section_tree whose entries are stored in the order of their order keys
LinkedTree(parents) ==
    [i \in 1..Len(parents) |->
        [title |-> TemplateTitle(i), level |-> 1, order |-> i - 1,
         parent |-> parents[i]]]

LinkedTemplates ==
    {[name |-> "Uploaded", section_tree |-> LinkedTree(ps)] :
        ps \in [1..MaxTree -> ParentValues(MaxTree)]}

PathTypeFailure == Exc("TypeError", <<Text("unhashable type: 'list'")>>)

OutlineCall(w) == CallWith(w, {None}, {<<t>> : t \in LinkedTemplates}) /\ Quiet

OutlineLoad(w) == LoadOutline(w) /\ Quiet

\* outline_path = node.path_str(toc_nodes), for the node the loop has come to;
\* the statement is outside the try block, so what it raises leaves the function
OutlinePath(w) ==
    /\ pc[w] = "retrieve"
    /\ IF PathRaises(toc_nodes[w], CurrentNode(w).parent, {})
       THEN /\ exc' = [exc EXCEPT ![w] = <<PathTypeFailure>>]
            /\ pc' = [pc EXCEPT ![w] = "raised"]
            /\ UNCHANGED <<idx, outline_paths>>
       ELSE /\ outline_paths' = [outline_paths EXCEPT ![w] =
                    Append(outline_paths[w], path_str(CurrentNode(w), toc_nodes[w]))]
            /\ idx' = [idx EXCEPT ![w] = idx[w] + 1]
            /\ pc' = [pc EXCEPT ![w] = LoopPc(session_id[w], idx[w] + 1, toc_nodes[w])]
            /\ UNCHANGED exc
    /\ UNCHANGED <<sessions, session_id, toc_template, toc_nodes, sections_payload,
                   evidence_log, rfq_ids, draft_json, status_seen, node_exc,
                   last_writer, stop_mark, lock, poll_vars, prompt, response, ret>>

NextOutline ==
    \/ \E w \in {"w1"} : OutlineCall(w)
    \/ \E w \in {"w1"} : OutlineLoad(w)
    \/ \E w \in {"w1"} : OutlinePath(w)

SpecOutline == Init /\ [][NextOutline]_vars

FairSpec == Spec /\ \A w \in Workers : WF_vars(WorkerStep(w) /\ Quiet)

(***************************************************************************)
(* Specification with the lock and a status poll made explicit: a run with *)
(* a session, the control calls, and one caller of get_generation_status.  *)
(* wait_if_paused takes the lock in one step and checks, then leaves the   *)
(* with block, in the next; the poll is get_status followed by one step    *)
(* per field read from the returned dict.                                  *)
(***************************************************************************)
\* The fields get_generation_status reads from the dict, in its order
PollFields ==
    <<"status", "current_section", "completed_sections", "total_sections", "message">>

\* The dict the caller holds: the session's own dict, not a copy
PollDict == IF poll_obj # <<>> THEN poll_obj[1] ELSE sessions[poll_ref]

\* controller.get_status(session_id), under the lock; None gives HTTP 404
GetStatus(id) ==
    /\ poll_pc = "idle"
    /\ lock = "free"
    /\ IF id \in DOMAIN sessions
       THEN /\ poll_pc' = "reading"
            /\ poll_ref' = id
            /\ poll_held' = {sessions[id]}
            /\ poll_seen' = <<>>
       ELSE /\ poll_pc' = "not_found"
            /\ UNCHANGED <<poll_ref, poll_held, poll_seen>>
    /\ UNCHANGED <<prompt, response, ret, outline_paths, sessions, worker_vars, last_writer, stop_mark, lock, poll_obj>>

\* status['<field>'] in get_generation_status: a read of the dict, without the lock
ReadField ==
    /\ poll_pc = "reading"
    /\ LET n == Cardinality(DOMAIN poll_seen)
           f == PollFields[n + 1]
       IN /\ poll_seen' = Put(poll_seen, f, PollDict[f])
          /\ poll_held' = {d \in poll_held : d[f] = PollDict[f]}
          /\ poll_pc' = IF n + 1 = Len(PollFields) THEN "done" ELSE "reading"
    /\ UNCHANGED <<prompt, response, ret, outline_paths, sessions, worker_vars, last_writer, stop_mark, lock, poll_ref,
                   poll_obj>>

\* get_generation_status returns its response, or raises HTTP 404; the caller
\* may poll again
PollReturn ==
    /\ poll_pc \in {"done", "not_found"}
    /\ poll_pc' = "idle"
    /\ poll_ref' = None
    /\ poll_obj' = <<>>
    /\ poll_seen' = <<>>
    /\ poll_held' = {}
    /\ UNCHANGED <<prompt, response, ret, outline_paths, sessions, worker_vars, last_writer, stop_mark, lock>>

\* d has the value the caller read, for every field read so far
Agrees(d) == \A f \in DOMAIN poll_seen : d[f] = poll_seen[f]

\* What a step that may write the session map means for the dict being read:
\* its new value is recorded if it agrees with the fields read so far (poll_held
\* is the values the dict has had since get_status returned it that agree with
\* every field read); when the session is deleted the caller keeps the dict as
\* it was.
PollTrack ==
    /\ poll_obj' =
          IF poll_pc = "reading" /\ poll_obj = <<>> /\ poll_ref \notin DOMAIN sessions'
          THEN <<sessions[poll_ref]>> ELSE poll_obj
    /\ poll_held' =
          IF poll_pc = "reading" /\ poll_obj = <<>> /\ poll_ref \in DOMAIN sessions'
          THEN poll_held \cup {d \in {sessions'[poll_ref]} : Agrees(d)}
          ELSE poll_held
    /\ UNCHANGED <<poll_pc, poll_ref, poll_seen>>

\* A step that calls a controller method: the lock is free, and free again after
Locked(A) == lock = "free" /\ A /\ UNCHANGED <<lock, outline_paths, prompt, response, ret>> /\ PollTrack

\* A step that calls no controller method
Unlocked(A) ==
    A /\ UNCHANGED <<lock, poll_vars, outline_paths, prompt, response, ret>>

\* Faulty variant of LockAfterCheck: the sleep is inside the with block.
LockAfterCheck_sleeping(w, outcome) == IF outcome = "sleep" THEN w ELSE "free"

\* The lock when wait_if_paused leaves "with self._lock": by return, or to sleep
LockAfterCheck(w, outcome) == "free"

\* wait_if_paused enters "with self._lock"
WaitAcquire(w) ==
    /\ pc[w] = "wait"
    /\ lock = "free"
    /\ lock' = w
    /\ pc' = [pc EXCEPT ![w] = "wait_locked"]
    /\ UNCHANGED <<sessions, session_id, toc_template, toc_nodes, idx,
                   sections_payload, evidence_log, rfq_ids, draft_json,
                   status_seen, exc, node_exc, last_writer, stop_mark, poll_vars, outline_paths,
                   prompt, response, ret>>

\* The check inside the with block, and leaving the block
WaitCheck(w) ==
    /\ pc[w] = "wait_locked"
    /\ lock = w
    /\ status_seen' = [status_seen EXCEPT ![w] = Observe(sessions, session_id[w])]
    /\ LET r == wait_if_paused(Observe(sessions, session_id[w]))
       IN /\ pc' = [pc EXCEPT ![w] =
                      IF r = "true" THEN "progress"
                      ELSE IF r = "false" THEN "mark_stopped"
                      ELSE "sleep"]
          /\ lock' = LockAfterCheck(w, r)
    /\ UNCHANGED <<sessions, session_id, toc_template, toc_nodes, idx,
                   sections_payload, evidence_log, rfq_ids, draft_json, exc,
                   node_exc, last_writer, stop_mark, poll_vars, outline_paths,
                   prompt, response, ret>>

\* The run of this specification: session "s1" and an uploaded template
PollTemplate == [name |-> "Uploaded", section_tree |-> SectionTree(MaxNodes, FALSE)]

PollCall(w) == Locked(CallWith(w, {"s1"}, {<<PollTemplate>>}))
\* The retrieval and the two model calls of that run: the search returns no
\* chunk, the model replies with the bare object
PollRetrieve(w) == Unlocked(RetrieveWith(w, {"ok"}, {<<>>}))
PollDraft(w) == Unlocked(DraftWith(w, {<<Obj(DraftObj)>>}))
PollRefine(w) == Unlocked(RefineWith(w, {<<Obj(RefinedObj)>>}))
PollPause(id) == Locked(PauseCall(id))
PollResume(id) == Locked(ResumeCall(id))
PollStop(id) == Locked(StopCall(id))
PollCleanup(id) == Locked(CleanupCall(id))

\* The worker thread of this specification
PollWorkers == {"w1"}

NextPoll ==
    \/ \E w \in PollWorkers : PollCall(w)
    \/ \E w \in PollWorkers : Unlocked(LoadOutline(w))
    \/ \E w \in PollWorkers : Locked(ReportTotal(w))
    \/ \E w \in PollWorkers : WaitAcquire(w)
    \/ \E w \in PollWorkers : WaitCheck(w)
    \/ \E w \in PollWorkers : Unlocked(Sleep(w))
    \/ \E w \in PollWorkers : Locked(MarkStopped(w))
    \/ \E w \in PollWorkers : Locked(UpdateProgress(w))
    \/ \E w \in PollWorkers : PollRetrieve(w)
    \/ \E w \in PollWorkers : PollDraft(w)
    \/ \E w \in PollWorkers : PollRefine(w)
    \/ \E w \in PollWorkers : Locked(MarkCompleted(w))
    \/ \E w \in PollWorkers : Locked(FinalProgress(w))
    \/ \E id \in {"s1"} : PollPause(id)
    \/ \E id \in {"s1"} : PollResume(id)
    \/ \E id \in {"s1"} : PollStop(id)
    \/ \E id \in {"s1"} : PollCleanup(id)
    \/ \E id \in {"s1"} : GetStatus(id)
    \/ ReadField
    \/ PollReturn

SpecPoll == Init /\ [][NextPoll]_vars

(***************************************************************************)
(* Specification: the prompts of the draft and refine calls, over section  *)
(* titles of every prompt type, retrieved texts from none to more than the *)
(* context limit, and nodes with and without template data.                *)
(***************************************************************************)
PromptTitles ==
    { <<"Technical", "Approach">>, <<"COMMERCIAL", "Terms">>, <<"Payment", "Terms">>,
      <<"Compliance", "Matrix">>, <<"Executive", "Summary">>, <<"Part", "1">>,
      <<"Technical", "Specifications", "Compliance", "Matrix">> }

\* page_content of the retrieved chunks, one line each
ChunkTexts ==
    { <<>>, << "Delivery within 12 weeks." >>,
      << "Delivery within 12 weeks.", "Payment net 30.", "Warranty 24 months." >> }

\* Entries of template_section_map: none for the title, one without a
\* content_sample, one with
TemplateData ==
    { <<>>,
      << [writing_sample |-> <<>>, target_words |-> 200, table_count |-> 0,
          image_count |-> 0] >>,
      << [writing_sample |-> << "We propose a phased delivery." >>, target_words |-> 150,
          table_count |-> 1, image_count |-> 1] >> }

\* json.dumps of a draft, on one line
DraftTexts ==
    { << "{\"title\": \"Part 1\", \"content\": \"Delivery in 12 weeks.\"}" >>,
      << "{\"title\": \"Part 1\", \"content\": \"Price: [[TODO: confirm price]]\"}" >> }

\* template_style_notes of generate_advanced_proposal
StyleNotes(template_data) ==
    IF template_data = <<>> THEN <<>>
    ELSE << "Target: " \o ToString(template_data[1].target_words) \o " words" >>

\* The draft call of a node is built and sent
BuildDraftPrompt ==
    \E section_title \in PromptTitles, level \in {1, 2}, rfq_texts \in ChunkTexts,
       kb_texts \in {<<>>, << "Our approach follows ISO 9001." >>},
       template_data \in TemplateData :
        prompt' = DraftMessages(section_title, level,
                                IF level = 1 THEN JoinWords(section_title)
                                ELSE "Part 1 > " \o JoinWords(section_title),
                                rfq_texts, kb_texts, template_data)

\* The refine call of a node is built and sent; the caller passes
\* rfq_excerpt = ""
BuildRefinePrompt ==
    \E draft \in DraftTexts, template_data \in TemplateData :
        prompt' = RefineMessages(<<>>, draft, StyleNotes(template_data))

PromptFrame == UNCHANGED <<sessions, worker_vars, last_writer, stop_mark, lock, poll_vars,
                           outline_paths, response, ret>>

NextPrompt ==
    \/ BuildDraftPrompt /\ PromptFrame
    \/ BuildRefinePrompt /\ PromptFrame

SpecPrompt == Init /\ [][NextPrompt]_vars

(***************************************************************************)
(* Specification: what the draft call and the refine call make of a raw    *)
(* response, over responses of up to MaxReplyLen pieces: prose, objects,   *)
(* and JSON values that are not objects.  Prose holds no braces.           *)
(***************************************************************************)
MaxReplyLen == 3

ReplyPieces ==
    { Text("Here is the section:"), Obj(DraftObj), Obj(OtherObj), Val(<<"not", "an object">>) }

\* response.choices[0].message.content or "": the empty text included
RawResponses == SeqsUpTo(ReplyPieces, MaxReplyLen)

\* generate_advanced_section receives raw and raises or returns
DraftResponse ==
    \E raw \in RawResponses, ids \in {<<>>, <<"rfq.pdf">>} :
        \E out \in DraftOutcomes(raw, ids) :
            response' = [fn |-> "draft", raw |-> raw, out |-> out]

\* refine_section_advanced receives raw and raises or returns
RefineResponse ==
    \E raw \in RawResponses :
        \E out \in RefineOutcomes(raw) :
            response' = [fn |-> "refine", raw |-> raw, out |-> out]

ParseFrame == UNCHANGED <<sessions, worker_vars, last_writer, stop_mark, lock, poll_vars,
                          outline_paths, prompt, ret>>

NextParse ==
    \/ DraftResponse /\ ParseFrame
    \/ RefineResponse /\ ParseFrame

SpecParse == Init /\ [][NextParse]_vars

(***************************************************************************)
(* Specification: two runs that were given the same session id (the id is  *)
(* the caller's), and a caller issuing control calls on it.                *)
(***************************************************************************)
SharedId == "s1"

SharedCall(w) == CallWith(w, {SharedId}, {<<SingleTemplate>>}) /\ Quiet

SharedStep(w) ==
    \/ SharedCall(w)
    \/ LoadOutline(w) /\ Quiet
    \/ ReportTotal(w) /\ Quiet
    \/ WaitIfPaused(w) /\ Quiet
    \/ Sleep(w) /\ Quiet
    \/ MarkStopped(w) /\ Quiet
    \/ UpdateProgress(w) /\ Quiet
    \/ TwoRetrieve(w)
    \/ TwoDraft(w)
    \/ TwoRefine(w)
    \/ MarkCompleted(w) /\ Quiet
    \/ FinalProgress(w) /\ Quiet

NextShared ==
    \/ \E w \in Workers : SharedCall(w)
    \/ \E w \in Workers : LoadOutline(w) /\ Quiet
    \/ \E w \in Workers : ReportTotal(w) /\ Quiet
    \/ \E w \in Workers : WaitIfPaused(w) /\ Quiet
    \/ \E w \in Workers : Sleep(w) /\ Quiet
    \/ \E w \in Workers : MarkStopped(w) /\ Quiet
    \/ \E w \in Workers : UpdateProgress(w) /\ Quiet
    \/ \E w \in Workers : TwoRetrieve(w)
    \/ \E w \in Workers : TwoDraft(w)
    \/ \E w \in Workers : TwoRefine(w)
    \/ \E w \in Workers : MarkCompleted(w) /\ Quiet
    \/ \E w \in Workers : FinalProgress(w) /\ Quiet
    \/ PauseCall(SharedId) /\ Quiet
    \/ ResumeCall(SharedId) /\ Quiet
    \/ StopCall(SharedId) /\ Quiet
    \/ CleanupCall(SharedId) /\ Quiet

SpecShared == InitTwo /\ [][NextShared]_vars

\* Each run keeps taking steps; control calls may or may not come
FairShared == SpecShared /\ \A w \in Workers : WF_vars(SharedStep(w))

(***************************************************************************)
(* Specification: outlines of templates whose section_tree is stored in    *)
(* any order, with parent indices that form valid chains in section_tree.  *)
(***************************************************************************)
\* The ways to give MaxTree entries the order keys 0..MaxTree-1
OrderKeys == {f \in [1..MaxTree -> 0..(MaxTree - 1)] : \A i, j \in 1..MaxTree : i # j => f[i] # f[j]}

\* section_tree with entry i given order key keys[i] and parent parents[i]
StoredTree(keys, parents) ==
    [i \in 1..MaxTree |->
        [title |-> TemplateTitle(i), level |-> 1, order |-> keys[i], parent |-> parents[i]]]

\* Parent indices that designate other entries of the section_tree, without cycles
ChainedParents ==
    {ps \in [1..MaxTree -> {NoParent} \cup {IntParent(v) : v \in 0..(MaxTree - 1)}] :
        \A i \in 1..MaxTree : ValidChain(StoredTree([k \in 1..MaxTree |-> k - 1], ps), i, MaxTree)}

StoredTemplates ==
    {[name |-> "Uploaded", section_tree |-> StoredTree(keys, ps)] :
        keys \in OrderKeys, ps \in ChainedParents}

ShuffledCall(w) == CallWith(w, {None}, {<<t>> : t \in StoredTemplates}) /\ Quiet

NextShuffled ==
    \/ \E w \in {"w1"} : ShuffledCall(w)
    \/ \E w \in {"w1"} : OutlineLoad(w)
    \/ \E w \in {"w1"} : OutlinePath(w)

SpecShuffled == Init /\ [][NextShuffled]_vars

(***************************************************************************)
(* Specification: one run on session s1 and a caller of the controller     *)
(* methods on s1 and on s2, an id that never has a record; what each call  *)
(* returns is kept in ret.                                                 *)
(***************************************************************************)
ControlFrame == UNCHANGED <<lock, poll_vars, outline_paths, prompt, response>>

Returns(fn, id, value) == ret' = Return(fn, id, value, 1 - ret.tick)

PauseReturns(id) ==
    PauseCall(id) /\ Returns("pause", id, pause_result(sessions, id)) /\ ControlFrame

ResumeReturns(id) ==
    ResumeCall(id) /\ Returns("resume", id, resume_result(sessions, id)) /\ ControlFrame

StopReturns(id) ==
    StopCall(id) /\ Returns("stop", id, stop_result(sessions, id)) /\ ControlFrame

GetStatusReturns(id) ==
    /\ Returns("get_status", id, get_status(sessions, id))
    /\ UNCHANGED <<sessions, worker_vars, last_writer, stop_mark>>
    /\ ControlFrame

CleanupReturns(id) == CleanupCall(id) /\ Returns("cleanup_session", id, FALSE) /\ ControlFrame

ControlRunCall(w) == CallWith(w, {"s1"}, {<<DraftTemplate>>}) /\ Quiet

NextControl ==
    \/ \E w \in {"w1"} : ControlRunCall(w)
    \/ \E w \in {"w1"} : LoadOutline(w) /\ Quiet
    \/ \E w \in {"w1"} : ReportTotal(w) /\ Quiet
    \/ \E w \in {"w1"} : WaitIfPaused(w) /\ Quiet
    \/ \E w \in {"w1"} : Sleep(w) /\ Quiet
    \/ \E w \in {"w1"} : MarkStopped(w) /\ Quiet
    \/ \E w \in {"w1"} : UpdateProgress(w) /\ Quiet
    \/ \E w \in {"w1"} : TwoRetrieve(w)
    \/ \E w \in {"w1"} : TwoDraft(w)
    \/ \E w \in {"w1"} : TwoRefine(w)
    \/ \E w \in {"w1"} : MarkCompleted(w) /\ Quiet
    \/ \E w \in {"w1"} : FinalProgress(w) /\ Quiet
    \/ \E id \in SessionIds : PauseReturns(id)
    \/ \E id \in SessionIds : ResumeReturns(id)
    \/ \E id \in SessionIds : StopReturns(id)
    \/ \E id \in SessionIds : GetStatusReturns(id)
    \/ \E id \in SessionIds : CleanupReturns(id)

SpecControl == Init /\ [][NextControl]_vars

(***************************************************************************)
(* Properties                                                              *)
(***************************************************************************)
SessionExists(w) == session_id[w] \in DOMAIN sessions
StatusOf(w) == sessions[session_id[w]].status

\* The run left its loop because wait_if_paused returned False
BrokeOff(w) == pc[w] \in {"mark_stopped", "mark_completed", "final_progress", "returned"}
               /\ status_seen[w] \in {STOPPED, "missing"}

IsPlaceholder(entry) == FailureNotice \in Range(entry.content)

\* s ends with the tokens of t
EndsWith(s, t) == Len(s) >= Len(t) /\ SubSeq(s, Len(s) - Len(t) + 1, Len(s)) = t

\* C1: when a run with a session id saw STOPPED in wait_if_paused and the
\* session still exists, the session's status is STOPPED when
\* generate_advanced_proposal returns, as long as no control call has written
\* the status after the worker did.
C1_StoppedAtReturn ==
    \A w \in Workers :
        (/\ pc[w] = "returned"
         /\ status_seen[w] = STOPPED
         /\ SessionExists(w)
         /\ last_writer[session_id[w]] = "worker")
        => StatusOf(w) = STOPPED

\* C2: at every point of a run, sections and evidence_log.sections both have
\* one entry per outline node processed so far, and entry i of each list
\* belongs to the i-th outline node, failed nodes included.
C2_ListsAligned ==
    \A w \in Workers :
        /\ Len(sections_payload[w]) = idx[w]
        /\ Len(evidence_log[w]) = idx[w]
        /\ \A i \in 1..Len(sections_payload[w]) : sections_payload[w][i].of_node = i
        /\ \A i \in 1..Len(evidence_log[w]) : evidence_log[w][i].of_node = i

\* C3: once stop(id) has set a session to STOPPED, a pause(id) or resume(id)
\* call leaves its status STOPPED.
C3_StoppedIsTerminal ==
    [][\A id \in SessionIds :
          (/\ id \in DOMAIN sessions
           /\ sessions[id].status = STOPPED
           /\ last_writer[id] = "control"
           /\ (PauseCall(id) \/ ResumeCall(id)))
          => (id \in DOMAIN sessions' /\ sessions'[id].status = STOPPED)]_vars

\* C4: after stop(id) succeeded on the session of a run in progress, no
\* outline node is started beyond those already started when stop was called.
C4_NoNodeStartedAfterStop ==
    \A w \in Workers :
        (HasSession(w) /\ stop_mark[session_id[w]] # -1)
        => Started(w) <= stop_mark[session_id[w]]

\* C5: a run that was stopped after k nodes returns exactly the entries of
\* the first k outline nodes, in outline order.
C5_PartialResultKept ==
    \A w \in Workers :
        (pc[w] = "returned" /\ BrokeOff(w))
        => /\ Len(sections_payload[w]) = idx[w]
           /\ \A i \in 1..idx[w] :
                /\ sections_payload[w][i].of_node = i
                /\ sections_payload[w][i].level = toc_nodes[w][i].level

C5_Witness ==
    \E w \in Workers :
        /\ pc[w] = "returned"
        /\ status_seen[w] = STOPPED
        /\ idx[w] = 2
        /\ Len(toc_nodes[w]) = 3
        /\ IsPlaceholder(sections_payload[w][1])
        /\ ~IsPlaceholder(sections_payload[w][2])

\* C6: a session is COMPLETED only when all outline nodes of its run were
\* traversed, and a run that traversed all of them returns with the session
\* COMPLETED (as long as no control call has written the status since).
C6_CompletedIffFullTraversal ==
    \A w \in Workers :
        /\ (SessionExists(w) /\ StatusOf(w) = COMPLETED)
           => idx[w] = Len(toc_nodes[w])
        /\ (/\ pc[w] = "returned"
            /\ ~BrokeOff(w)
            /\ SessionExists(w)
            /\ last_writer[session_id[w]] = "worker")
           => StatusOf(w) = COMPLETED

\* C7: a check of wait_if_paused returns true when it finds RUNNING, returns
\* false when it finds STOPPED or no session, and does not return (it sleeps
\* and checks again) when it finds PAUSED.
C7_WaitIfPausedOutcome ==
    [][\A w \in Workers :
          (pc[w] = "wait" /\ pc'[w] # "wait")
          => LET seen == Observe(sessions, session_id[w])
             IN /\ seen = RUNNING => pc'[w] = "progress"
                /\ seen \in {STOPPED, "missing"} => pc'[w] = "mark_stopped"
                /\ seen = PAUSED => pc'[w] = "sleep"
                /\ pc'[w] = "progress" => seen = RUNNING
                /\ pc'[w] = "mark_stopped" => seen \in {STOPPED, "missing"}]_vars

C7_Witness ==
    \E w \in Workers :
        /\ pc[w] = "sleep"
        /\ status_seen[w] = PAUSED
        /\ SessionExists(w)
        /\ StatusOf(w) = PAUSED
        /\ idx[w] = 1

\* C8: an exception during retrieval, draft or refine of a node never leaves
\* generate_advanced_proposal: the failed node gets a placeholder entry at its
\* outline position, every other traversed node gets its generated entry, and
\* a run that is not stopped traverses every node.
C8_FailureIsolated ==
    \A w \in Workers :
        /\ pc[w] = "raised" => node_exc[w] = <<>>
        /\ Len(sections_payload[w]) = Len(node_exc[w])
        /\ \A i \in 1..Len(sections_payload[w]) :
             /\ sections_payload[w][i].of_node = i
             /\ IsPlaceholder(sections_payload[w][i]) <=> node_exc[w][i] # <<>>
             /\ node_exc[w][i] = <<>>
                => sections_payload[w][i] = SectionEntry(toc_nodes[w][i], i, RefinedObj)
        /\ (pc[w] = "returned" /\ ~BrokeOff(w))
           => Len(sections_payload[w]) = Len(toc_nodes[w])

C8_Witness ==
    \E w \in Workers :
        /\ pc[w] = "returned"
        /\ Len(sections_payload[w]) = 3
        /\ ~IsPlaceholder(sections_payload[w][1])
        /\ IsPlaceholder(sections_payload[w][2])
        /\ node_exc[w][2] = <<DraftParseFailure(<<Text("I cannot help with that.")>>)>>
        /\ ~IsPlaceholder(sections_payload[w][3])

\* C9: every outline node whose generation failed has an evidence_log entry
\* with retrieved = [] and a section entry whose content holds the failure
\* notice followed by the error text.
C9_FailedNodeLogged ==
    \A w \in Workers :
        \A i \in 1..Len(node_exc[w]) :
            node_exc[w][i] # <<>>
            => /\ \E j \in 1..Len(evidence_log[w]) :
                    /\ evidence_log[w][j].of_node = i
                    /\ evidence_log[w][j].retrieved = <<>>
               /\ \E j \in 1..Len(sections_payload[w]) :
                    /\ sections_payload[w][j].of_node = i
                    /\ IsPlaceholder(sections_payload[w][j])
                    /\ EndsWith(sections_payload[w][j].content, node_exc[w][i][1].text)

\* C10: when an exception leaves generate_advanced_proposal outside the
\* per-node try block after the session was created, the session's status is
\* ERROR (as long as no control call has written the status since).
C10_ErrorOnRunFailure ==
    \A w \in Workers :
        (/\ pc[w] = "raised"
         /\ SessionExists(w)
         /\ last_writer[session_id[w]] = "worker")
        => StatusOf(w) = ERROR

\* C11: a status poll (get_status, then reading status, current_section,
\* completed_sections, total_sections and message) ends with a combination of
\* values that the session's dict held at one instant since get_status
\* returned it.
C11_PollIsSnapshot == poll_pc = "done" => poll_held # {}

\* The worker sleeps in wait_if_paused, or a retrieval or model call of a node
\* is in flight
OutsideController(w) == pc[w] \in {"sleep", "retrieve", "draft", "refine"}

\* C12: while wait_if_paused sleeps and while a retrieval or generation call is
\* in flight the lock is free, and pause, resume, stop and get_status can each
\* take it and complete.
C12_LockFreeOutsideCheck ==
    \A w \in PollWorkers :
        OutsideController(w)
        => /\ lock = "free"
           /\ \A id \in {"s1"} :
                /\ ENABLED PollPause(id)
                /\ ENABLED PollResume(id)
                /\ ENABLED PollStop(id)
                /\ poll_pc = "idle" => ENABLED GetStatus(id)

\* The worker is asleep on a paused session with the lock free
C12_Witness ==
    /\ pc["w1"] = "sleep"
    /\ status_seen["w1"] = PAUSED
    /\ sessions["s1"].status = PAUSED
    /\ lock = "free"

\* C13: in a run with a session id a node is begun only by a wait_if_paused
\* that returned True, the controller is not consulted again until the node
\* is over, and the node ends with its entry appended whatever pause or stop
\* was issued meanwhile.
C13_CheckedOncePerNode ==
    [][\A w \in Workers :
        HasSession(w)
        => /\ (pc'[w] = "progress" /\ pc[w] # "progress")
              => (pc[w] = "wait" /\ status_seen'[w] = RUNNING)
           /\ (pc'[w] = "retrieve" /\ pc[w] # "retrieve") => pc[w] = "progress"
           /\ pc[w] \in InNode
              => /\ status_seen'[w] = status_seen[w]
                 /\ pc'[w] \in InNode \cup {"wait", "mark_completed"}
           /\ (pc[w] \in InNode /\ pc'[w] \notin InNode)
              => /\ idx'[w] = idx[w] + 1
                 /\ Len(sections_payload'[w]) = idx[w] + 1
                 /\ sections_payload'[w][idx[w] + 1].of_node = idx[w] + 1]_vars

\* A stop issued after the check for the second node let the worker through:
\* the worker is at the refine call of that node
C13_Witness ==
    \E w \in Workers :
        /\ HasSession(w) /\ SessionExists(w)
        /\ pc[w] = "refine"
        /\ idx[w] = 1
        /\ status_seen[w] = RUNNING
        /\ StatusOf(w) = STOPPED

\* The session of the run of "w1" and what has happened to it
Paused1 == "s1" \in DOMAIN sessions /\ sessions["s1"].status = PAUSED
Stopped1 == "s1" \in DOMAIN sessions /\ sessions["s1"].status = STOPPED
CleanedUp1 == pc["w1"] # "idle" /\ session_id["w1"] = "s1" /\ "s1" \notin DOMAIN sessions
Completed1 ==
    /\ "s1" \in DOMAIN sessions
    /\ sessions["s1"].status = COMPLETED
    /\ toc_nodes["w1"] # <<>>
    /\ idx["w1"] = Len(toc_nodes["w1"])

\* C14: a run with a session that is paused, whose pauses are all resumed in
\* the end, and that is neither stopped nor cleaned up, processes every outline
\* node and its session becomes COMPLETED (the worker being scheduled fairly
\* and every call returning).
C14_ResumedRunCompletes ==
    (/\ <>Paused1
     /\ <>[]~Paused1
     /\ []~Stopped1
     /\ []~CleanedUp1)
    => <>Completed1

\* The same for the runs that get past the loading of their outline
C14_ResumedTemplateRunCompletes ==
    (/\ <>Paused1
     /\ <>[]~Paused1
     /\ []~Stopped1
     /\ []~CleanedUp1
     /\ [](pc["w1"] # "raised"))
    => <>Completed1

\* C15: a pause, resume or stop call on a session whose status is COMPLETED
\* or ERROR leaves the status as it is.
C15_FinishedStaysFinished ==
    [][\A id \in SessionIds :
          (/\ id \in DOMAIN sessions
           /\ sessions[id].status \in {COMPLETED, ERROR}
           /\ (PauseCall(id) \/ ResumeCall(id) \/ StopCall(id)))
          => sessions'[id].status = sessions[id].status]_vars

NoDuplicates(q) == \A i, j \in DOMAIN q : i # j => q[i] # q[j]

ListFields == {"cited_chunks", "notes", "risks", "assumptions", "image_suggestions"}

\* C17: every entry of sections_payload, generated or fallback, has the five
\* list fields, each holding a list.
C17_ListFieldsPresent ==
    \A w \in Workers :
        \A i \in 1..Len(sections_payload[w]) :
            \A f \in ListFields :
                /\ f \in DOMAIN sections_payload[w][i]
                /\ sections_payload[w][i][f] # JsonNull

\* C17 without cited_chunks: the four list fields the entries do have hold lists.
C17_PresentFieldsAreLists ==
    \A w \in Workers :
        \A i \in 1..Len(sections_payload[w]) :
            \A f \in ListFields \ {"cited_chunks"} :
                /\ f \in DOMAIN sections_payload[w][i]
                /\ sections_payload[w][i][f] # JsonNull

\* The strings that end with title t: a chain of at most n titles of the tree,
\* then t, joined by " > "
PathsEndingWith(t, tree) ==
    {JoinPath(Append(c, t)) : c \in SeqsUpTo({tree[i].title : i \in DOMAIN tree}, Len(tree))}

\* C18: path_str returns for every node of every outline, whatever its parent
\* links are, without raising, and what it returns ends with the node's title.
C18_PathReturns ==
    \A w \in Workers :
        /\ exc[w] # <<PathTypeFailure>>
        /\ \A i \in 1..Len(outline_paths[w]) :
             outline_paths[w][i] \in PathsEndingWith(toc_nodes[w][i].title, toc_nodes[w])

\* C18 apart from the raise: every path that is returned ends with the node's title.
C18_ReturnedPathEndsWithTitle ==
    \A w \in Workers :
        \A i \in 1..Len(outline_paths[w]) :
            outline_paths[w][i] \in PathsEndingWith(toc_nodes[w][i].title, toc_nodes[w])

\* The parent of the node at position i of tree is an integer out of range
OutOfRangeParent(tree, i) ==
    /\ tree[i].parent.tag = "int"
    /\ (tree[i].parent.v < 0 \/ tree[i].parent.v >= Len(tree))

\* The parent of the node at position i of tree is the index of that node
SelfParent(tree, i) == tree[i].parent = IntParent(i - 1)

\* C19: the path of a node whose parent index is its own index or is out of
\* range is the node's title and nothing else.
C19_InvalidParentIsTopLevel ==
    \A w \in Workers :
        \A i \in 1..Len(outline_paths[w]) :
            (SelfParent(toc_nodes[w], i) \/ OutOfRangeParent(toc_nodes[w], i))
            => outline_paths[w][i] = toc_nodes[w][i].title

\* C19 for out-of-range indices alone
C19_OutOfRangeIsTopLevel ==
    \A w \in Workers :
        \A i \in 1..Len(outline_paths[w]) :
            OutOfRangeParent(toc_nodes[w], i)
            => outline_paths[w][i] = toc_nodes[w][i].title

\* From the node at position i, at most n parent links, each a valid index,
\* lead to a node without parent
\* Titles from the root of such a chain down to the node at position i
RECURSIVE RootPath(_, _)
RootPath(tree, i) ==
    IF tree[i].parent = NoParent THEN <<tree[i].title>>
    ELSE Append(RootPath(tree, tree[i].parent.v + 1), tree[i].title)

\* C20: in an outline whose parent links are valid and acyclic the path of a
\* node is the titles of its ancestors from the root down to the node, joined
\* by " > ".
C20_PathIsAncestorChain ==
    \A w \in Workers :
        \A i \in 1..Len(outline_paths[w]) :
            ValidChain(toc_nodes[w], i, Len(toc_nodes[w]))
            => outline_paths[w][i] = JoinPath(RootPath(toc_nodes[w], i))

\* The chain A, B (parent A), C (parent B): the path of C
C20_Witness ==
    /\ Len(toc_nodes["w1"]) = 3
    /\ toc_nodes["w1"][1].parent = NoParent
    /\ toc_nodes["w1"][2].parent = IntParent(0)
    /\ toc_nodes["w1"][3].parent = IntParent(1)
    /\ Len(outline_paths["w1"]) = 3
    /\ outline_paths["w1"][3] = "Part 1 > Part 2 > Part 3"

\* The list is in nondecreasing (order, level)
SortedByKey(nodes) == \A i, j \in DOMAIN nodes : i < j => ~KeyLess(nodes[j], nodes[i])

\* The nodes of the entries of a template's section_tree, in stored order
TemplateNodes(t) ==
    [i \in 1..Len(t.section_tree) |->
        SectionNode(t.section_tree[i].title, t.section_tree[i].level,
                    t.section_tree[i].order, t.section_tree[i].parent)]

\* What the outline of the run of w should be: the default outline without a
\* template or with an empty section_tree, the template's nodes otherwise
OutlineAsSpecified(w, nodes) ==
    /\ nodes # <<>>
    /\ SortedByKey(nodes)
    /\ IF toc_template[w] = <<>>
          \/ Len(Get(toc_template[w][1], "section_tree", <<>>)) = 0
       THEN nodes = DefaultNodes
       ELSE /\ Len(nodes) = Len(toc_template[w][1].section_tree)
            /\ Range(nodes) = Range(TemplateNodes(toc_template[w][1]))

\* C21: once a run is past the loading of its outline, the outline is not
\* empty, is in nondecreasing (order, level), and is the default outline when
\* there is no template or its section_tree is empty, the template's nodes
\* otherwise.
C21_OutlineLoaded ==
    \A w \in Workers :
        pc[w] \notin {"off", "idle", "load"} => OutlineAsSpecified(w, toc_nodes[w])

\* C21 for the runs that are given a template
C21_TemplateOutlineLoaded ==
    \A w \in Workers :
        (pc[w] \notin {"off", "idle", "load"} /\ toc_template[w] # <<>>)
        => OutlineAsSpecified(w, toc_nodes[w])

\* The record of session b is the same before and after the step
RecordKept(b) ==
    /\ b \in DOMAIN sessions <=> b \in DOMAIN sessions'
    /\ b \in DOMAIN sessions => sessions'[b] = sessions[b]

\* C22: a step of the run on session id a (its create_session, set_status,
\* update_progress, wait_if_paused) and a pause, resume, stop or
\* cleanup_session call on a leave the record of every other id as it was.
C22_OtherSessionsKept ==
    [][/\ \A w \in Workers :
            pc'[w] # pc[w] => \A b \in SessionIds \ {session_id'[w]} : RecordKept(b)
       /\ \A a \in SessionIds :
            (PauseCall(a) \/ ResumeCall(a) \/ StopCall(a) \/ CleanupCall(a))
            => \A b \in SessionIds \ {a} : RecordKept(b)]_vars

\* Both sessions exist, one paused by a control call while the other run goes on
C22_Witness ==
    /\ DOMAIN sessions = {"s1", "s2"}
    /\ sessions["s1"].status = PAUSED
    /\ sessions["s2"].status = RUNNING
    /\ sessions["s2"].completed_sections = 0
    /\ sessions["s2"].total_sections = 1
    /\ pc["w2"] = "draft"

\* The lines of the prompt library that tell the model to put the [[TODO: ...]]
\* placeholder, or to keep it
PlaceholderInstructions ==
    { "6) Use ONLY provided evidence. Insert [[TODO: ...]] for missing information",
      "4) Do not invent values. Insert [[TODO: ...]] if missing.",
      "3) If compliance status cannot be confirmed, use [[TODO: verify compliance]].",
      "5) Maintain all [[TODO: ...]] placeholders - do not remove them" }

HasSchema(text) == Within(STRICT_JSON_SCHEMA, text)

HasPlaceholderInstruction(text) == \E i \in DOMAIN text : text[i] \in PlaceholderInstructions

\* C23: every prompt that is built, of each draft variant and of the refine
\* call, contains the strict JSON schema description and an instruction about
\* the [[TODO: ...]] placeholder, whatever the RFQ excerpt and the context.
C23_PromptHasSchemaAndPlaceholder ==
    prompt.kind # "none" => HasSchema(prompt.user) /\ HasPlaceholderInstruction(prompt.user)

\* C23, the schema alone
C23_PromptHasSchema == prompt.kind # "none" => HasSchema(prompt.user)

\* C23 for the prompts other than the commercial and the corporate ones
C23_OtherPromptsHavePlaceholder ==
    prompt.kind \notin {"none", "commercial", "corporate"}
    => HasPlaceholderInstruction(prompt.user)

\* C23 for the two messages of a call taken together
C23_CallHasPlaceholder ==
    prompt.kind # "none"
    => \/ HasPlaceholderInstruction(prompt.user)
       \/ \E i \in DOMAIN prompt.system :
            prompt.system[i] \in
                { "Follow the JSON schema exactly. If information is missing, insert [[TODO: ...]]. ",
                  "Output STRICT JSON only. Maintain all [[TODO: ...]] placeholders." }

\* The call made its result of the parsed value l: it returned the object (the
\* draft call with its list fields filled in), or it raised something other
\* than the parse error because l is not an object or has a null cited_chunks
FromParsed(fn, out, l) ==
    IF out.raised
    THEN /\ out.exc.type # "ValueError"
         /\ ~l.isdict \/ (fn = "draft" /\ NormalizeRaises(l.obj))
    ELSE /\ l.isdict
         /\ fn = "refine" => out.value = l.obj
         /\ fn = "draft" => \A k \in DOMAIN l.obj \ {"cited_chunks"} : out.value[k] = l.obj[k]

\* C24: for the draft and the refine call, a response that is valid JSON is
\* parsed directly; one that is not, but whose part from the first '{' to the
\* last '}' is valid JSON, yields that object; any other response makes the
\* call raise an error that carries the whole raw response, and the call
\* returns no result.
C24_ParseLadder ==
    response.fn # "none" =>
        LET raw == response.raw
            out == response.out
        IN  /\ Loads(raw).ok => FromParsed(response.fn, out, Loads(raw))
            /\ (~Loads(raw).ok /\ Loads(BraceSlice(raw)).ok)
               => /\ Loads(BraceSlice(raw)).isdict
                  /\ FromParsed(response.fn, out, Loads(BraceSlice(raw)))
            /\ (~Loads(raw).ok /\ ~Loads(BraceSlice(raw)).ok)
               => /\ out.raised
                  /\ out.exc.type = "ValueError"
                  /\ EndsWith(out.exc.text, raw)

\* The draft call returned the object found between prose
C24_Witness ==
    /\ response.fn = "draft"
    /\ response.raw = <<Text("Here is the section:"), Obj(DraftObj), Text("Here is the section:")>>
    /\ ~response.out.raised
    /\ response.out.value["title"] = "Draft"

\* C24, third case: a response with two objects made the refine call raise
C24_FailureWitness ==
    /\ response.fn = "refine"
    /\ response.raw = <<Obj(DraftObj), Obj(OtherObj)>>
    /\ response.out = Raised(RefineParseFailure(response.raw))

\* C25: the worker is held in wait_if_paused only by the status PAUSED: when
\* it goes to sleep for another pass, the status it found was PAUSED.
C25_BlockedOnlyWhilePaused ==
    \A w \in Workers : pc[w] = "sleep" => status_seen[w] = PAUSED

\* C25 as progress: a worker in wait_if_paused on a COMPLETED session leaves it
\* unless the session becomes PAUSED
C25_ReturnsWhenCompleted ==
    \A w \in Workers :
        (pc[w] \in {"wait", "sleep"} /\ Observe(sessions, session_id[w]) = COMPLETED)
        ~> (pc[w] \notin {"wait", "sleep"} \/ Observe(sessions, session_id[w]) = PAUSED)

\* C25 for the statuses other than COMPLETED and ERROR: RUNNING, STOPPED and a
\* missing record never put the worker to sleep
C25_ReturnsWhenRunningOrStopped ==
    \A w \in Workers :
        pc[w] = "sleep" => status_seen[w] \notin {RUNNING, STOPPED, "missing"}

\* The session of the run of w has a record
RunRecord(w) == HasSession(w) /\ session_id[w] \in DOMAIN sessions

\* C26: at every point of a run, completed_sections of its session is at most
\* the number of section entries appended so far and at most total_sections;
\* so after a run that ended on a stop it is the number of sections returned.
C26_CompletedWithinAppended ==
    \A w \in Workers :
        RunRecord(w) =>
            /\ sessions[session_id[w]].completed_sections <= Len(sections_payload[w])
            /\ sessions[session_id[w]].completed_sections
                   <= sessions[session_id[w]].total_sections

\* C26 up to the return: before the final update_progress the bounds hold
C26_CompletedWithinAppendedInLoop ==
    \A w \in Workers :
        (RunRecord(w) /\ pc[w] # "returned") =>
            /\ sessions[session_id[w]].completed_sections <= Len(sections_payload[w])
            /\ sessions[session_id[w]].completed_sections
                   <= sessions[session_id[w]].total_sections

\* C26, the bound by total_sections alone
C26_CompletedWithinTotal ==
    \A w \in Workers :
        RunRecord(w) =>
            sessions[session_id[w]].completed_sections
                <= sessions[session_id[w]].total_sections

\* Paths in which the title before the last one, t, is p
PathsThrough(p, t, tree) ==
    {JoinPath(c \o <<p, t>>) : c \in SeqsUpTo({tree[i].title : i \in DOMAIN tree}, Len(tree))}

\* The path of the node at position i of the outline of w puts before the node
\* the title of the section_tree entry that the node's parent index designates
ParentAsDesignated(w, i) ==
    LET node == toc_nodes[w][i]
        section_tree == toc_template[w][1].section_tree
    IN  node.parent # NoParent
        => outline_paths[w][i]
               \in PathsThrough(section_tree[node.parent.v + 1].title, node.title, section_tree)

\* C27: for every outline node built from a template's section_tree, the
\* title path_str puts before the node is the title of the entry that the
\* node's parent index designates in section_tree, also when sorting moved
\* the nodes.
C27_ParentIsDesignatedEntry ==
    \A w \in Workers :
        \A i \in 1..Len(outline_paths[w]) : ParentAsDesignated(w, i)

\* C27 for a section_tree that is stored in the order of its order keys
C27_ParentIsDesignatedEntryWhenSorted ==
    \A w \in Workers :
        \A i \in 1..Len(outline_paths[w]) :
            SortedByKey(TemplateNodes(toc_template[w][1])) => ParentAsDesignated(w, i)

\* C28: the evidence_log entry appended for a generated node lists as
\* retrieved only ids that the retrieval returned for that node; an id that
\* only the model's cited_chunks named is not among them.
C28_RetrievedOnlyFromRetrieval ==
    [][\A w \in Workers :
        (pc[w] = "refine" /\ Len(evidence_log'[w]) = Len(evidence_log[w]) + 1)
        => Range(evidence_log'[w][Len(evidence_log'[w])].retrieved)
               \subseteq Range(rfq_ids[w])]_vars

\* C28 the other way round: every id the retrieval returned is listed
C28_RetrievalIsListed ==
    [][\A w \in Workers :
        (pc[w] = "refine" /\ Len(evidence_log'[w]) = Len(evidence_log[w]) + 1)
        => Range(rfq_ids[w])
               \subseteq Range(evidence_log'[w][Len(evidence_log'[w])].retrieved)]_vars

\* The step is a call of fn by the caller
Called(fn) == ret'.tick # ret.tick /\ ret'.fn = fn

\* The fields of a record that pause, resume and stop are not to touch
ProgressFields == {"current_section", "completed_sections", "total_sections", "started_at",
                   "message"}

\* C29: resume(id) returns True and sets the status to RUNNING exactly when
\* the session exists and is PAUSED; otherwise it returns False and leaves
\* the record as it was.  pause, resume and stop never change
\* current_section, completed_sections, total_sections, started_at, message.
C29_ResumeOnlyFromPaused ==
    [][/\ Called("resume")
          => IF ret'.id \in DOMAIN sessions /\ sessions[ret'.id].status = PAUSED
             THEN ret'.value = TRUE /\ sessions'[ret'.id].status = RUNNING
             ELSE ret'.value = FALSE /\ sessions' = sessions
       /\ (Called("pause") \/ Called("resume") \/ Called("stop"))
          => /\ DOMAIN sessions' = DOMAIN sessions
             /\ \A id \in DOMAIN sessions : \A f \in ProgressFields :
                    sessions'[id][f] = sessions[id][f]]_vars

\* resume returned True on the paused session of a run held before its second
\* section: the session runs again and its progress is as it was
C29_Witness ==
    /\ ret.fn = "resume"
    /\ ret.id = "s1"
    /\ ret.value = TRUE
    /\ "s1" \in DOMAIN sessions
    /\ sessions["s1"].status = RUNNING
    /\ sessions["s1"].completed_sections = 0
    /\ sessions["s1"].current_section = "Part 1"
    /\ idx["w1"] = 1
    /\ pc["w1"] = "sleep"

\* resume returned False on a stopped session, which stays stopped
C29_RefusedWitness ==
    /\ ret.fn = "resume"
    /\ ret.id = "s1"
    /\ ret.value = FALSE
    /\ "s1" \in DOMAIN sessions
    /\ sessions["s1"].status = STOPPED

\* Positions from which the next step of the run calls set_status or
\* update_progress
WritingPositions == {"report_total", "mark_stopped", "progress", "mark_completed",
                     "final_progress"}

\* C30: for an id that has no record, pause, resume and stop return False,
\* get_status returns None, the run's set_status and update_progress change
\* nothing, its wait_if_paused returns False, and no record appears; so the
\* set_status(STOPPED) and set_status(COMPLETED) of a run whose session was
\* cleaned up do not bring the session back.
C30_MissingSessionStaysMissing ==
    [][/\ (ret'.tick # ret.tick /\ ret'.id \notin DOMAIN sessions)
          => /\ sessions' = sessions
             /\ ret'.fn \in {"pause", "resume", "stop"} => ret'.value = FALSE
             /\ ret'.fn = "get_status" => ret'.value = <<>>
       /\ \A w \in Workers :
            (HasSession(w) /\ session_id[w] \notin DOMAIN sessions /\ pc'[w] # pc[w])
            => /\ pc[w] \in WritingPositions => sessions' = sessions
               /\ pc[w] = "wait" => pc'[w] = "mark_stopped" /\ sessions' = sessions]_vars

\* The session of the run was cleaned up while the run was on its second
\* node; the run found no record, left its loop and returned, and there is no
\* record
C30_Witness ==
    /\ pc["w1"] = "returned"
    /\ session_id["w1"] = "s1"
    /\ status_seen["w1"] = "missing"
    /\ Len(sections_payload["w1"]) = 1
    /\ sessions = <<>>
    /\ ret.fn = "stop"
    /\ ret.id = "s1"
    /\ ret.value = FALSE

====
